---- MODULE Spec2Model ----
(***************************************************************************)
(* Mind-map editor: the history-backed reducer (mindMapReducer), the tree  *)
(* utilities, the AI schema adapter and the editor session (App) that      *)
(* drives them.                                                            *)
(*                                                                         *)
(* Representation.  A JavaScript value that may be undefined/null is a     *)
(* sequence of length 0 (absent) or 1 (present): <<>> or <<v>>.  A node id *)
(* (a uuid string in the source) is a positive integer, null is 0.         *)
(*                                                                         *)
(* Left out as presentation glue: the modal (isModalOpen, modalContent),   *)
(* the mode selector (currentMode only picks the prompt and the model of   *)
(* the collaborator, whose answer is nondeterministic here), the wording   *)
(* of alert messages and the input panel's text, recording and PDF         *)
(* widgets.                                                                *)
(*                                                                         *)
(* Specifications.                                                         *)
(*   Spec         the editor session: every handler of App, enabled as the *)
(*                buttons and the canvas enable it.                        *)
(*   LiveSpec     Spec, every awaited collaborator call completing.        *)
(*   RaceSpec     the session around one collaborator call over a          *)
(*                generated forest, with room for a change in flight.      *)
(*   StoreSpec    mindMapReducer alone, under every action it accepts.     *)
(*   HeapSpec     mindMapReducer alone over a heap of array and node       *)
(*                objects, with the sharing that references bring.         *)
(*   AdapterSpec  the AI schema adapter alone: import, then export.        *)
(*   ExportSpec   the export alone, on nodes of any metadata.               *)
(*   ServiceSpec  one call of a geminiService function: its requests and   *)
(*                the value it settles with.                               *)
(*   TranscribeSpec      one call of transcribeAudio: the callbacks of its  *)
(*                live session and its timeout, in any order.              *)
(*   TranscribeLiveSpec  TranscribeSpec, the timer firing once it is set.  *)
(***************************************************************************)
EXTENDS Integers, Sequences, FiniteSets, TLC

VARIABLES
    mindMapState,   \* useReducer state: [nodes, history, historyPointer]
    selectedNode,   \* useState<MindMapNode | null>: <<>>, or <<[id, text]>>, the
                    \* fields of the held node object that are ever read
    isLoading,      \* useState<boolean>: the busy flag
    pending,        \* the awaited collaborator call of the running handler
    lastAlert,      \* whether the latest step raised an alert()
    issued,         \* how many ids the id generator (uuidv4) has handed out
    probe           \* what the specifications of one part on its own work on:
                    \* the heap store of HeapSpec, the tree under conversion of
                    \* AdapterSpec; unused by the editor session

vars == <<mindMapState, selectedNode, isLoading, pending, lastAlert, issued, probe>>

(***************************************************************************)
(* Bounds of the model.                                                    *)
(***************************************************************************)
MaxHistory == 3     \* handlers that append a snapshot stop at this length
MaxId == 3          \* ids the generator may hand out

null == 0
undefined == <<>>
\* What the user types into a node.
Texts == {"b"}

(***************************************************************************)
(* types.ts                                                                *)
(***************************************************************************)
MAIN_TOPIC == "MAIN_TOPIC"
SUB_TOPIC == "SUB_TOPIC"
DETAIL == "DETAIL"

\* An object literal {} of type MindMapNode['metadata']: every key absent.
EmptyMetadata ==
    [pros |-> undefined, cons |-> undefined, questions |-> undefined,
     flashcard |-> undefined, summary |-> undefined, task |-> undefined]

MetadataKeys == {"pros", "cons", "questions", "flashcard", "summary", "task"}

\* { ...a, ...b } on two metadata bags, either of which may be undefined.
SpreadMetadata(a, b) ==
    LET oa == IF a = undefined THEN EmptyMetadata ELSE a[1]
        ob == IF b = undefined THEN EmptyMetadata ELSE b[1]
    IN  [k \in MetadataKeys |-> IF ob[k] # undefined THEN ob[k] ELSE oa[k]]

(***************************************************************************)
(* Tree utilities                                                          *)
(***************************************************************************)
RECURSIVE findNodeById(_, _)
findNodeById(nodes, id) ==
    IF nodes = <<>> THEN undefined
    ELSE LET node == Head(nodes)
         IN  IF node.id = id THEN <<node>>
             ELSE LET found == findNodeById(node.children, id)
                  IN  IF found # undefined THEN found
                      ELSE findNodeById(Tail(nodes), id)

\* The update functions the reducer passes to updateNodeRecursive, applied
\* to the shallow copy { ...node }.
SetText(newNode, newText) == [newNode EXCEPT !.text = newText]

FlipExpanded(newNode) == [newNode EXCEPT !.isExpanded = ~newNode.isExpanded]

\* node.metadata = action.payload.metadata: the patch replaces the bag.
MergeMetadata_Replaces(newNode, metadata, status) ==
    [newNode EXCEPT
        !.metadata = <<metadata>>,
        !.status = IF status # undefined THEN status ELSE newNode.status]

MergeMetadata(newNode, metadata, status) ==
    [newNode EXCEPT
        !.metadata = <<SpreadMetadata(newNode.metadata, <<metadata>>)>>,
        !.status = IF status # undefined THEN status ELSE newNode.status]

\* updateFn is data here: [fn |-> "text" | "toggle" | "metadata", ...].
updateFn(u, newNode) ==
    CASE u.fn = "text" -> SetText(newNode, u.newText)
      [] u.fn = "toggle" -> FlipExpanded(newNode)
      [] u.fn = "metadata" -> MergeMetadata(newNode, u.metadata, u.status)

\* The id test forgotten at the top level: updateFn is applied to every node of
\* the array the function is called on.
updateNodeRecursive_EveryRoot(nodes, targetId, u) ==
    [i \in DOMAIN nodes |-> updateFn(u, nodes[i])]

RECURSIVE updateNodeRecursive(_, _, _)
updateNodeRecursive(nodes, targetId, u) ==
    [i \in DOMAIN nodes |->
        LET node == nodes[i]
        IN  IF node.id = targetId
            THEN updateFn(u, node)
            ELSE [node EXCEPT
                    !.children = updateNodeRecursive(node.children, targetId, u)]]

\* The .map(...) forgotten: only the array the function is called on is
\* filtered, the children arrays are left as they are.
deleteNodeRecursive_RootsOnly(nodes, targetId) ==
    SelectSeq(nodes, LAMBDA node: node.id # targetId)

RECURSIVE deleteNodeRecursive(_, _)
deleteNodeRecursive(nodes, targetId) ==
    LET kept == SelectSeq(nodes, LAMBDA node: node.id # targetId)
    IN  [i \in DOMAIN kept |->
            [kept[i] EXCEPT
                !.children = deleteNodeRecursive(kept[i].children, targetId)]]

\* JSON.parse(JSON.stringify(nodes)): every node is rebuilt from the fields
\* JSON keeps.  A key whose value is undefined is dropped by stringify, which
\* in this representation is the same absent value <<>>.
RECURSIVE DeepCopy(_)
DeepCopy(nodes) ==
    [i \in DOMAIN nodes |->
        LET node == nodes[i]
        IN  [id |-> node.id,
             text |-> node.text,
             children |-> DeepCopy(node.children),
             parentId |-> node.parentId,
             isExpanded |-> node.isExpanded,
             type |-> node.type,
             tags |-> node.tags,
             status |-> node.status,
             metadata |-> node.metadata]]

\* Ids of a forest in depth-first order (the order findNodeById visits).
RECURSIVE IdSeq(_)
IdSeq(nodes) ==
    IF nodes = <<>> THEN <<>>
    ELSE <<Head(nodes).id>> \o IdSeq(Head(nodes).children) \o IdSeq(Tail(nodes))

Ids(nodes) == LET seq == IdSeq(nodes) IN {seq[i] : i \in DOMAIN seq}

(***************************************************************************)
(* AI schema adapter                                                       *)
(***************************************************************************)
\* uuidv4(): the n-th id handed out is n, so no id is issued twice.
uuidv4(n) == n

\* The level test forgotten: every imported node is a DETAIL.
nodeTypeForLevel_AlwaysDetail(level) == DETAIL

nodeTypeForLevel(level) ==
    IF level = 0 THEN MAIN_TOPIC
    ELSE IF level = 1 THEN SUB_TOPIC
    ELSE DETAIL

\* Number of nodes of an AI node / of a sequence of AI nodes: the number of
\* uuidv4() calls its import makes.
RECURSIVE AISize(_)
AISize(aiNodes) ==
    IF aiNodes = <<>> THEN 0
    ELSE LET subs == IF Head(aiNodes).subtopics = undefined THEN <<>>
                     ELSE Head(aiNodes).subtopics[1]
         IN  1 + AISize(subs) + AISize(Tail(aiNodes))

\* if (aiNode.pros && aiNode.cons) ...; if (aiNode.questions) ...
importMetadata(aiNode) ==
    LET m1 == IF aiNode.pros # undefined /\ aiNode.cons # undefined
              THEN [EmptyMetadata EXCEPT !.pros = aiNode.pros, !.cons = aiNode.cons]
              ELSE EmptyMetadata
    IN  IF aiNode.questions # undefined
        THEN [m1 EXCEPT !.questions = aiNode.questions]
        ELSE m1

\* convertAIMapNodeToMindMapNode(aiNode, parentId, level); n is the number
\* of ids handed out before the call.  The node takes its id first, then the
\* subtopics are converted left to right, each taking the ids after those of
\* its elder siblings.
RECURSIVE convertAIMapNodeToMindMapNode(_, _, _, _)
convertAIMapNodeToMindMapNode(aiNode, parentId, level, n) ==
    LET id == uuidv4(n + 1)
        subs == IF aiNode.subtopics = undefined THEN <<>> ELSE aiNode.subtopics[1]
    IN  [id |-> id,
         text |-> aiNode.title,
         children |->
            [i \in DOMAIN subs |->
                convertAIMapNodeToMindMapNode(
                    subs[i], id, level + 1, n + 1 + AISize(SubSeq(subs, 1, i - 1)))],
         parentId |-> parentId,
         isExpanded |-> TRUE,
         type |-> nodeTypeForLevel(level),
         tags |-> <<>>,
         status |-> undefined,
         metadata |-> <<importMetadata(aiNode)>>]

\* aiResponse.map.map((aiNode) => convertAIMapNodeToMindMapNode(aiNode, null, 0))
newRootNodes(map, n) ==
    [i \in DOMAIN map |->
        convertAIMapNodeToMindMapNode(map[i], null, 0, n + AISize(SubSeq(map, 1, i - 1)))]

\* node.metadata?.key
MetaGet(node, key) ==
    IF node.metadata = undefined THEN undefined ELSE node.metadata[1][key]

\* An export that gives pros and cons only when the metadata has both.
RECURSIVE convertMindMapNodeToAIMapNode_NeedsBoth(_)
convertMindMapNodeToAIMapNode_NeedsBoth(node) ==
    LET hasProsCons == MetaGet(node, "pros") # undefined /\ MetaGet(node, "cons") # undefined
    IN  [title |-> node.text,
         subtopics |-> <<[i \in DOMAIN node.children |->
                            convertMindMapNodeToAIMapNode_NeedsBoth(node.children[i])]>>,
         pros |-> IF hasProsCons THEN MetaGet(node, "pros") ELSE undefined,
         cons |-> IF hasProsCons THEN MetaGet(node, "cons") ELSE undefined,
         questions |-> MetaGet(node, "questions")]

RECURSIVE convertMindMapNodeToAIMapNode(_)
convertMindMapNodeToAIMapNode(node) ==
    LET hasProsCons == MetaGet(node, "pros") # undefined \/ MetaGet(node, "cons") # undefined
    IN  [title |-> node.text,
         subtopics |-> <<[i \in DOMAIN node.children |->
                            convertMindMapNodeToAIMapNode(node.children[i])]>>,
         pros |-> IF hasProsCons THEN MetaGet(node, "pros") ELSE undefined,
         cons |-> IF hasProsCons THEN MetaGet(node, "cons") ELSE undefined,
         questions |-> MetaGet(node, "questions")]

(***************************************************************************)
(* History-backed state store: mindMapReducer                              *)
(***************************************************************************)
Max(a, b) == IF a >= b THEN a ELSE b
Min(a, b) == IF a <= b THEN a ELSE b

\* Array.prototype.slice(0, end) for end >= 0.
slice(arr, end) == SubSeq(arr, 1, Min(end, Len(arr)))

\* What reading state.history[i] yields when i is no index of the array:
\* undefined, which is no forest.  It is a one-element sequence holding a
\* record of the node shape, so that it compares unequal to every forest.
undefinedNodes ==
    <<[id |-> -1, text |-> "undefined", children |-> <<>>, parentId |-> null,
       isExpanded |-> FALSE, type |-> "undefined", tags |-> <<>>,
       status |-> undefined, metadata |-> undefined]>>

\* arr[i] with JavaScript's 0-based index.
At(arr, i) == IF i >= 0 /\ i < Len(arr) THEN arr[i + 1] ELSE undefinedNodes

\* Snapshot with the redo tail kept: the new snapshot is pushed onto the whole
\* history (the slice forgotten).
Snapshot_KeepsRedoTail(state, newNodes) ==
    LET newHistory == Append(state.history, newNodes)
    IN  [nodes |-> newNodes,
         history |-> newHistory,
         historyPointer |-> Len(newHistory) - 1]

\* The tail shared by every mutating case: truncate, push, point at the end.
\* A snapshot that is skipped when the forest it is given equals the current
\* one.
Snapshot_SkipsUnchanged(state, newNodes) ==
    IF newNodes = state.nodes THEN state
    ELSE LET newHistory == Append(slice(state.history, state.historyPointer + 1), newNodes)
         IN  [nodes |-> newNodes,
              history |-> newHistory,
              historyPointer |-> Len(newHistory) - 1]

Snapshot(state, newNodes) ==
    LET newHistory == Append(slice(state.history, state.historyPointer + 1), newNodes)
    IN  [nodes |-> newNodes,
         history |-> newHistory,
         historyPointer |-> Len(newHistory) - 1]

\* SET_NODES writing over the snapshot at the pointer instead of behind it.
SET_NODES_Overwrites(state, payload) ==
    LET newHistory == Append(slice(state.history, state.historyPointer), payload)
    IN  [nodes |-> payload,
         history |-> newHistory,
         historyPointer |-> Len(newHistory) - 1]

SET_NODES(state, payload) == Snapshot(state, payload)

\* ADD_NODE on the deep copy: newNodes.push(newNode), or the first node
\* findNodeById finds takes the child and is expanded.
\* parentNode.isExpanded = true forgotten: the child is pushed, the parent is
\* left collapsed if it was.
RECURSIVE pushChild_NoExpand(_, _, _)
pushChild_NoExpand(nodes, parentId, newNode) ==
    IF nodes = <<>> THEN <<>>
    ELSE LET node == Head(nodes)
         IN  IF node.id = parentId
             THEN <<[node EXCEPT !.children = Append(node.children, newNode)]>>
                  \o Tail(nodes)
             ELSE IF findNodeById(node.children, parentId) # undefined
             THEN <<[node EXCEPT
                        !.children = pushChild_NoExpand(node.children, parentId, newNode)]>>
                  \o Tail(nodes)
             ELSE <<node>> \o pushChild_NoExpand(Tail(nodes), parentId, newNode)

RECURSIVE pushChild(_, _, _)
pushChild(nodes, parentId, newNode) ==
    IF nodes = <<>> THEN <<>>
    ELSE LET node == Head(nodes)
         IN  IF node.id = parentId
             THEN <<[node EXCEPT !.children = Append(node.children, newNode),
                                 !.isExpanded = TRUE]>> \o Tail(nodes)
             ELSE IF findNodeById(node.children, parentId) # undefined
             THEN <<[node EXCEPT
                        !.children = pushChild(node.children, parentId, newNode)]>>
                  \o Tail(nodes)
             ELSE <<node>> \o pushChild(Tail(nodes), parentId, newNode)

\* ADD_NODE returning early when the parent is not found: no snapshot.
ADD_NODE_SkipsUnknownParent(state, payload) ==
    IF payload.parentId # null /\ findNodeById(state.nodes, payload.parentId) = undefined
    THEN state
    ELSE LET copy == DeepCopy(state.nodes)
             newNodes == IF payload.parentId = null
                         THEN Append(copy, payload.newNode)
                         ELSE pushChild(copy, payload.parentId, payload.newNode)
         IN  Snapshot(state, newNodes)

ADD_NODE(state, payload) ==
    LET copy == DeepCopy(state.nodes)
        newNodes == IF payload.parentId = null
                    THEN Append(copy, payload.newNode)
                    ELSE pushChild(copy, payload.parentId, payload.newNode)
    IN  Snapshot(state, newNodes)

UPDATE_NODE_TEXT(state, payload) ==
    Snapshot(state,
        updateNodeRecursive(state.nodes, payload.nodeId,
                            [fn |-> "text", newText |-> payload.newText]))

DELETE_NODE(state, payload) ==
    Snapshot(state, deleteNodeRecursive(state.nodes, payload.nodeId))

\* TOGGLE_EXPAND that steps back instead of pushing when the toggled forest
\* is the snapshot before the pointer.
TOGGLE_EXPAND_Deduplicated(state, payload) ==
    LET newNodes == updateNodeRecursive(state.nodes, payload.nodeId, [fn |-> "toggle"])
    IN  IF state.historyPointer >= 1
           /\ At(state.history, state.historyPointer - 1) = newNodes
        THEN [state EXCEPT !.nodes = newNodes,
                           !.historyPointer = state.historyPointer - 1]
        ELSE Snapshot(state, newNodes)

TOGGLE_EXPAND(state, payload) ==
    Snapshot(state,
        updateNodeRecursive(state.nodes, payload.nodeId, [fn |-> "toggle"]))

UPDATE_NODE_METADATA(state, payload) ==
    Snapshot(state,
        updateNodeRecursive(state.nodes, payload.nodeId,
            [fn |-> "metadata", metadata |-> payload.metadata,
             status |-> payload.status]))

\* UNDO that moves the pointer and leaves nodes as it is.
UNDO_KeepsNodes(state) ==
    [state EXCEPT !.historyPointer = Max(0, state.historyPointer - 1)]

\* UNDO without the Math.max(0, ...) clamp.
UNDO_Unclamped(state) ==
    LET newHistoryPointer == state.historyPointer - 1
    IN  [state EXCEPT !.nodes = At(state.history, newHistoryPointer),
                      !.historyPointer = newHistoryPointer]

UNDO(state) ==
    LET newHistoryPointer == Max(0, state.historyPointer - 1)
    IN  [state EXCEPT !.nodes = At(state.history, newHistoryPointer),
                      !.historyPointer = newHistoryPointer]

\* REDO without the Math.min(history.length - 1, ...) clamp.
REDO_Unclamped(state) ==
    LET newHistoryPointer == state.historyPointer + 1
    IN  [state EXCEPT !.nodes = At(state.history, newHistoryPointer),
                      !.historyPointer = newHistoryPointer]

\* REDO that moves the pointer and leaves nodes as it is.
REDO_KeepsNodes(state) ==
    [state EXCEPT
        !.historyPointer = Min(Len(state.history) - 1, state.historyPointer + 1)]

REDO(state) ==
    LET newHistoryPointer == Min(Len(state.history) - 1, state.historyPointer + 1)
    IN  [state EXCEPT !.nodes = At(state.history, newHistoryPointer),
                      !.historyPointer = newHistoryPointer]

mindMapReducer(state, action) ==
    CASE action.type = "SET_NODES" -> SET_NODES(state, action.payload)
      [] action.type = "ADD_NODE" -> ADD_NODE(state, action.payload)
      [] action.type = "UPDATE_NODE_TEXT" -> UPDATE_NODE_TEXT(state, action.payload)
      [] action.type = "DELETE_NODE" -> DELETE_NODE(state, action.payload)
      [] action.type = "TOGGLE_EXPAND" -> TOGGLE_EXPAND(state, action.payload)
      [] action.type = "UPDATE_NODE_METADATA" -> UPDATE_NODE_METADATA(state, action.payload)
      [] action.type = "UNDO" -> UNDO(state)
      [] action.type = "REDO" -> REDO(state)
      [] OTHER -> state

(***************************************************************************)
(* The external collaborator: what a geminiService call can hand back to   *)
(* the handler that awaits it.                                             *)
(***************************************************************************)
AILeaf(t) ==
    [title |-> t, subtopics |-> undefined, pros |-> undefined,
     cons |-> undefined, questions |-> undefined]

\* The maps the collaborator answers with: empty, a root with a subtopic, a
\* chain three levels deep, and a debate-mode root.
MapResponses ==
    { <<>>,
      <<[AILeaf("a") EXCEPT !.subtopics = << <<AILeaf("b")>> >>]>>,
      <<[AILeaf("a") EXCEPT !.subtopics =
            << <<[AILeaf("b") EXCEPT !.subtopics = << <<AILeaf("a")>> >>]>> >>]>>,
      <<[AILeaf("b") EXCEPT !.pros = << <<"a">> >>, !.cons = << <<"b">> >>,
                            !.questions = << <<"a">> >>]>> }

\* AIMindMapOutput | null, or a rejected promise.  "nomap" is a parsed object
\* without a map property.
MapOutcomes ==
    {[kind |-> "throw", map |-> <<>>], [kind |-> "null", map |-> <<>>],
     [kind |-> "nomap", map |-> <<>>]}
    \cup {[kind |-> "ok", map |-> m] : m \in MapResponses}

FlashcardOutcomes == {undefined, <<[front |-> "a", back |-> "b"]>>}
SummaryOutcomes == {undefined, <<[summary |-> "a"]>>}
\* AIQuestionsOutput | null; the parsed object may lack the questions array.
QuestionsOutcomes ==
    {undefined, <<[questions |-> undefined]>>, <<[questions |-> << <<"a", "b">> >>]>>}

(***************************************************************************)
(* Editor session: App                                                     *)
(***************************************************************************)
mindMapNodes == mindMapState.nodes
history == mindMapState.history
historyPointer == mindMapState.historyPointer

NoCall == [kind |-> "none", nodeId |-> null]

\* dispatch(action)
dispatch(action) == mindMapState' = mindMapReducer(mindMapState, action)

\* alert(message) is a blocking dialog: it is gone before the next event is
\* handled, so lastAlert tells what the latest step did.  The wording of the
\* message is not kept in the state.
alert(message) == lastAlert' = TRUE
NoAlert == lastAlert' = FALSE

\* What probe holds in the session specifications: the name of the stage.
\* "session" is the session from the first render, "race" the session around
\* one collaborator call over a generated forest.
SessionProbe == [stage |-> "session"]
RaceProbe == [stage |-> "race"]

\* Guards that keep the model finite: room for one more snapshot, and ids
\* left for k more uuidv4() calls.  The race needs one snapshot more than the
\* session: the mount, the generated forest, a change made while the call is
\* in flight, and the response.
HistoryBound == IF probe = RaceProbe THEN MaxHistory + 1 ELSE MaxHistory
RoomForSnapshot == historyPointer + 2 <= HistoryBound
IdsLeft(k) == issued + k <= MaxId

Init ==
    /\ mindMapState = [nodes |-> <<>>, history |-> <<>>, historyPointer |-> -1]
    /\ selectedNode = undefined
    /\ isLoading = FALSE
    /\ pending = NoCall
    /\ lastAlert = FALSE
    /\ issued = 0
    /\ probe = SessionProbe

\* useEffect on mount: the history is seeded with the empty forest.
NeedsInit == Len(history) = 0 /\ Len(mindMapNodes) = 0

\* A mount effect that seeds the history whenever the forest is empty.
InitEffect_EveryEmptyForest ==
    /\ Len(mindMapNodes) = 0
    /\ RoomForSnapshot
    /\ dispatch([type |-> "SET_NODES", payload |-> <<>>])
    /\ NoAlert /\ UNCHANGED <<selectedNode, isLoading, pending, issued>>
    /\ UNCHANGED probe

InitEffect ==
    /\ NeedsInit
    /\ dispatch([type |-> "SET_NODES", payload |-> <<>>])
    /\ NoAlert /\ UNCHANGED <<selectedNode, isLoading, pending, issued>>
    /\ UNCHANGED probe

\* React flushes the mount effect before it handles any event.
Mounted == ~NeedsInit

\* The node components the canvas renders: the roots, and the children of
\* every rendered node that is expanded.
RECURSIVE RenderedNodes(_)
RenderedNodes(nodes) ==
    UNION {{nodes[i]} \cup (IF nodes[i].isExpanded
                            THEN RenderedNodes(nodes[i].children) ELSE {})
           : i \in DOMAIN nodes}

\* ---- InputPanel / Controls triggers, enabled while isLoading is false ----

\* A trigger that stays enabled while isLoading.
StartMapCall_IgnoresLoading(kind) ==
    /\ Mounted
    /\ isLoading' = TRUE
    /\ pending' = [kind |-> kind, nodeId |-> null]
    /\ NoAlert /\ UNCHANGED <<mindMapState, issued>>
    /\ UNCHANGED probe

\* await of a forest-returning call: the handler is suspended on it.
StartMapCall(kind) ==
    /\ Mounted
    /\ ~isLoading
    /\ isLoading' = TRUE
    /\ pending' = [kind |-> kind, nodeId |-> null]
    /\ NoAlert /\ UNCHANGED <<mindMapState, issued>>
    /\ UNCHANGED probe

\* The alert of the else branch (no response, or a response without a map)
\* and of the catch block of each forest-returning handler.
MapCallFailedMsg(kind) ==
    CASE kind = "generate" -> "Failed to generate mind map. Please try again."
      [] kind = "update" -> "Failed to update mind map. Please try again."
      [] kind = "autoRefine" -> "Failed to auto-refine mind map. Please try again."
      [] kind = "merge" -> "Failed to merge duplicate ideas. Please try again."

MapCallErrorMsg(kind) ==
    CASE kind = "generate" -> "Error generating mind map"
      [] kind = "update" -> "Error updating mind map"
      [] kind = "autoRefine" -> "Error auto-refining mind map"
      [] kind = "merge" -> "Error merging duplicate ideas"

\* A handler whose failure paths reset the forest before they alert.
ResumeMapCall_FailureClearsForest(kind, r) ==
    /\ pending.kind = kind
    /\ \/ /\ r.kind = "ok"
          /\ RoomForSnapshot
          /\ IdsLeft(AISize(r.map))
          /\ dispatch([type |-> "SET_NODES", payload |-> newRootNodes(r.map, issued)])
          /\ issued' = issued + AISize(r.map)
          /\ NoAlert
       \/ /\ r.kind \in {"null", "nomap"}
          /\ RoomForSnapshot
          /\ dispatch([type |-> "SET_NODES", payload |-> <<>>])
          /\ alert(MapCallFailedMsg(kind))
          /\ UNCHANGED issued
       \/ /\ r.kind = "throw"
          /\ RoomForSnapshot
          /\ dispatch([type |-> "SET_NODES", payload |-> <<>>])
          /\ alert(MapCallErrorMsg(kind))
          /\ UNCHANGED issued
    /\ isLoading' = FALSE
    /\ pending' = NoCall
    /\ UNCHANGED selectedNode
    /\ UNCHANGED probe

\* A handler that starts the history over with the forest it receives.
ResumeMapCall_RestartsHistory(kind, r) ==
    /\ pending.kind = kind
    /\ \/ /\ r.kind = "ok"
          /\ RoomForSnapshot
          /\ IdsLeft(AISize(r.map))
          /\ mindMapState' = [nodes |-> newRootNodes(r.map, issued),
                              history |-> <<newRootNodes(r.map, issued)>>,
                              historyPointer |-> 0]
          /\ issued' = issued + AISize(r.map)
          /\ NoAlert
       \/ /\ r.kind \in {"null", "nomap"}
          /\ alert(MapCallFailedMsg(kind))
          /\ UNCHANGED <<mindMapState, issued>>
       \/ /\ r.kind = "throw"
          /\ alert(MapCallErrorMsg(kind))
          /\ UNCHANGED <<mindMapState, issued>>
    /\ isLoading' = FALSE
    /\ pending' = NoCall
    /\ UNCHANGED selectedNode
    /\ UNCHANGED probe

\* A handler that puts the received forest behind the roots it finds.
ResumeMapCall_KeepsLocalForest(kind, r) ==
    /\ pending.kind = kind
    /\ \/ /\ r.kind = "ok"
          /\ RoomForSnapshot
          /\ IdsLeft(AISize(r.map))
          /\ dispatch([type |-> "SET_NODES",
                       payload |-> mindMapNodes \o newRootNodes(r.map, issued)])
          /\ issued' = issued + AISize(r.map)
          /\ NoAlert
       \/ /\ r.kind \in {"null", "nomap"}
          /\ alert(MapCallFailedMsg(kind))
          /\ UNCHANGED <<mindMapState, issued>>
       \/ /\ r.kind = "throw"
          /\ alert(MapCallErrorMsg(kind))
          /\ UNCHANGED <<mindMapState, issued>>
    /\ isLoading' = FALSE
    /\ pending' = NoCall
    /\ UNCHANGED selectedNode
    /\ UNCHANGED probe

\* The handler resumes with the call's outcome r.
ResumeMapCall(kind, r) ==
    /\ pending.kind = kind
    /\ \/ /\ r.kind = "ok"
          /\ RoomForSnapshot
          /\ IdsLeft(AISize(r.map))
          /\ dispatch([type |-> "SET_NODES", payload |-> newRootNodes(r.map, issued)])
          /\ issued' = issued + AISize(r.map)
          /\ NoAlert
       \/ /\ r.kind \in {"null", "nomap"}
          /\ alert(MapCallFailedMsg(kind))
          /\ UNCHANGED <<mindMapState, issued>>
       \/ /\ r.kind = "throw"
          /\ alert(MapCallErrorMsg(kind))
          /\ UNCHANGED <<mindMapState, issued>>
    /\ isLoading' = FALSE
    /\ pending' = NoCall
    /\ UNCHANGED selectedNode
    /\ UNCHANGED probe

handleGenerateMindMap ==
    /\ StartMapCall("generate")
    /\ selectedNode' = undefined

handleGenerateMindMap_resume ==
    \E r \in MapOutcomes : ResumeMapCall("generate", r)

handleUpdateMindMap ==
    /\ StartMapCall("update")
    /\ UNCHANGED selectedNode

handleUpdateMindMap_resume ==
    \E r \in MapOutcomes : ResumeMapCall("update", r)

handleAutoRefine ==
    /\ StartMapCall("autoRefine")
    /\ UNCHANGED selectedNode

handleAutoRefine_resume ==
    \E r \in MapOutcomes : ResumeMapCall("autoRefine", r)

handleMergeDuplicates ==
    /\ StartMapCall("merge")
    /\ UNCHANGED selectedNode

handleMergeDuplicates_resume ==
    \E r \in MapOutcomes : ResumeMapCall("merge", r)

\* Patch carrying one metadata key.
MetadataPatch(key, value) == [EmptyMetadata EXCEPT ![key] = <<value>>]

\* Controls: the four node buttons call the handler with selectedNode.id and
\* are disabled when nothing is selected or isLoading.
NodeButtonEnabled == Mounted /\ selectedNode # undefined /\ ~isLoading

\* A task conversion that stores the task and leaves the status as it was.
handleConvertNode_task_KeepsStatus ==
    /\ NodeButtonEnabled
    /\ LET nodeId == selectedNode[1].id
           node == findNodeById(mindMapNodes, nodeId)
       IN  \/ /\ node = undefined
              /\ UNCHANGED <<mindMapState, isLoading>>
           \/ /\ node # undefined
              /\ RoomForSnapshot
              /\ dispatch([type |-> "UPDATE_NODE_METADATA",
                           payload |-> [nodeId |-> nodeId,
                                        metadata |-> MetadataPatch("task",
                                            [description |-> <<"Complete", node[1].text>>,
                                             completed |-> FALSE,
                                             dueDate |-> undefined]),
                                        status |-> undefined]])
              /\ isLoading' = FALSE
    /\ NoAlert /\ UNCHANGED <<selectedNode, pending, issued>>
    /\ UNCHANGED probe

\* handleConvertNode(nodeId, 'task'): no collaborator call, so the handler
\* runs to its finally block in one go and isLoading ends false.
handleConvertNode_task ==
    /\ NodeButtonEnabled
    /\ LET nodeId == selectedNode[1].id
           node == findNodeById(mindMapNodes, nodeId)
       IN  \/ /\ node = undefined
              /\ UNCHANGED <<mindMapState, isLoading>>
           \/ /\ node # undefined
              /\ RoomForSnapshot
              /\ dispatch([type |-> "UPDATE_NODE_METADATA",
                           payload |-> [nodeId |-> nodeId,
                                        metadata |-> MetadataPatch("task",
                                            [description |-> <<"Complete", node[1].text>>,
                                             completed |-> FALSE,
                                             dueDate |-> undefined]),
                                        status |-> <<"task">>]])
              /\ isLoading' = FALSE
    /\ NoAlert /\ UNCHANGED <<selectedNode, pending, issued>>
    /\ UNCHANGED probe

\* A handler that awaits the collaborator without setIsLoading(true).
StartNodeCall_ForgetsLoading(kind) ==
    /\ NodeButtonEnabled
    /\ LET nodeId == selectedNode[1].id
       IN  \/ /\ findNodeById(mindMapNodes, nodeId) = undefined
              /\ UNCHANGED pending
           \/ /\ findNodeById(mindMapNodes, nodeId) # undefined
              /\ pending' = [kind |-> kind, nodeId |-> nodeId]
    /\ NoAlert /\ UNCHANGED <<mindMapState, selectedNode, issued, isLoading>>
    /\ UNCHANGED probe

\* A handler without the `if (!node) return;` guard.
StartNodeCall_CallsForAbsentNode(kind) ==
    /\ NodeButtonEnabled
    /\ isLoading' = TRUE
    /\ pending' = [kind |-> kind, nodeId |-> selectedNode[1].id]
    /\ NoAlert /\ UNCHANGED <<mindMapState, selectedNode, issued>>
    /\ UNCHANGED probe

\* handleConvertNode(nodeId, 'flashcard' | 'summary') and
\* handleGenerateClarifyingQuestions(nodeId) up to their await.
StartNodeCall(kind) ==
    /\ NodeButtonEnabled
    /\ LET nodeId == selectedNode[1].id
       IN  \/ /\ findNodeById(mindMapNodes, nodeId) = undefined
              /\ UNCHANGED <<isLoading, pending>>
           \/ /\ findNodeById(mindMapNodes, nodeId) # undefined
              /\ isLoading' = TRUE
              /\ pending' = [kind |-> kind, nodeId |-> nodeId]
    /\ NoAlert /\ UNCHANGED <<mindMapState, selectedNode, issued>>
    /\ UNCHANGED probe

\* The alert of the else branch of each node handler.
NodeCallFailedMsg(kind) ==
    CASE kind = "flashcard" -> "Failed to generate flashcard."
      [] kind = "summary" -> "Failed to generate summary."
      [] kind = "questions" -> "Failed to generate clarifying questions."

\* A handler with setIsLoading(false) in the success branch instead of in a
\* finally block.
ResumeNodeCall_NoFinally(kind, ok, patch, status) ==
    /\ pending.kind = kind
    /\ \/ /\ ok
          /\ RoomForSnapshot
          /\ dispatch([type |-> "UPDATE_NODE_METADATA",
                       payload |-> [nodeId |-> pending.nodeId, metadata |-> patch,
                                    status |-> status]])
          /\ NoAlert
          /\ isLoading' = FALSE
       \/ /\ ~ok
          /\ alert(NodeCallFailedMsg(kind))
          /\ UNCHANGED <<mindMapState, isLoading>>
    /\ pending' = NoCall
    /\ UNCHANGED <<selectedNode, issued>>
    /\ UNCHANGED probe

\* The handler resumes with result (undefined for null): a truthy result is
\* stored by UPDATE_NODE_METADATA, anything else is reported by alert.
ResumeNodeCall(kind, ok, patch, status) ==
    /\ pending.kind = kind
    /\ \/ /\ ok
          /\ RoomForSnapshot
          /\ dispatch([type |-> "UPDATE_NODE_METADATA",
                       payload |-> [nodeId |-> pending.nodeId, metadata |-> patch,
                                    status |-> status]])
          /\ NoAlert
       \/ /\ ~ok
          /\ alert(NodeCallFailedMsg(kind))
          /\ UNCHANGED mindMapState
    /\ isLoading' = FALSE
    /\ pending' = NoCall
    /\ UNCHANGED <<selectedNode, issued>>
    /\ UNCHANGED probe

handleConvertNode_flashcard == StartNodeCall("flashcard")

handleConvertNode_flashcard_resume ==
    \E result \in FlashcardOutcomes :
        ResumeNodeCall("flashcard", result # undefined,
                       IF result # undefined THEN MetadataPatch("flashcard", result[1])
                       ELSE EmptyMetadata,
                       <<"flashcard">>)

handleConvertNode_summary == StartNodeCall("summary")

handleConvertNode_summary_resume ==
    \E result \in SummaryOutcomes :
        ResumeNodeCall("summary", result # undefined,
                       IF result # undefined THEN MetadataPatch("summary", result[1].summary)
                       ELSE EmptyMetadata,
                       <<"summary">>)

handleGenerateClarifyingQuestions == StartNodeCall("questions")

handleGenerateClarifyingQuestions_resume ==
    \E result \in QuestionsOutcomes :
        LET ok == result # undefined /\ result[1].questions # undefined
        IN  ResumeNodeCall("questions", ok,
                           IF ok THEN MetadataPatch("questions", result[1].questions[1])
                           ELSE EmptyMetadata,
                           undefined)

\* Controls: Undo / Redo, disabled unless canUndo / canRedo and not isLoading.
canUndo == historyPointer > 0
canRedo == historyPointer < Len(history) - 1

onUndo ==
    /\ Mounted /\ canUndo /\ ~isLoading
    /\ dispatch([type |-> "UNDO"])
    /\ NoAlert /\ UNCHANGED <<selectedNode, isLoading, pending, issued>>
    /\ UNCHANGED probe

onRedo ==
    /\ Mounted /\ canRedo /\ ~isLoading
    /\ dispatch([type |-> "REDO"])
    /\ NoAlert /\ UNCHANGED <<selectedNode, isLoading, pending, issued>>
    /\ UNCHANGED probe

\* ---- MindMapCanvas callbacks, offered by every rendered node ----

\* A handler that records the selection as a snapshot of its own.
handleSelectNode_RecordsSnapshot ==
    /\ Mounted
    /\ \E node \in RenderedNodes(mindMapNodes) :
        selectedNode' = <<[id |-> node.id, text |-> node.text]>>
    /\ dispatch([type |-> "SET_NODES", payload |-> mindMapNodes])
    /\ NoAlert /\ UNCHANGED <<isLoading, pending, issued>>
    /\ UNCHANGED probe

handleSelectNode ==
    /\ Mounted
    /\ \E node \in RenderedNodes(mindMapNodes) :
        selectedNode' = <<[id |-> node.id, text |-> node.text]>>
    /\ NoAlert /\ UNCHANGED <<mindMapState, isLoading, pending, issued>>
    /\ UNCHANGED probe

\* A child created with its parent's id instead of a fresh one.
newChildNode_ParentsId(parentId, n) ==
    [id |-> parentId,
     text |-> "New Idea",
     children |-> <<>>,
     parentId |-> parentId,
     isExpanded |-> TRUE,
     type |-> DETAIL,
     tags |-> <<>>,
     status |-> undefined,
     metadata |-> undefined]

\* A child created without its parent's id.
newChildNode_Orphan(parentId, n) ==
    [id |-> uuidv4(n + 1),
     text |-> "New Idea",
     children |-> <<>>,
     parentId |-> null,
     isExpanded |-> TRUE,
     type |-> DETAIL,
     tags |-> <<>>,
     status |-> undefined,
     metadata |-> undefined]

\* The node handleAddChild creates; n ids were handed out before.
newChildNode(parentId, n) ==
    [id |-> uuidv4(n + 1),
     text |-> "New Idea",
     children |-> <<>>,
     parentId |-> parentId,
     isExpanded |-> TRUE,
     type |-> DETAIL,
     tags |-> <<>>,
     status |-> undefined,
     metadata |-> undefined]

handleAddChild ==
    /\ Mounted
    /\ RoomForSnapshot
    /\ IdsLeft(1)
    /\ \E parent \in RenderedNodes(mindMapNodes) :
        dispatch([type |-> "ADD_NODE",
                  payload |-> [parentId |-> parent.id,
                               newNode |-> newChildNode(parent.id, issued)]])
    /\ issued' = issued + 1
    /\ NoAlert /\ UNCHANGED <<selectedNode, isLoading, pending>>
    /\ UNCHANGED probe

\* MindMapNodeComponent.handleEditBlur calls it when the edited text differs.
handleUpdateNodeText ==
    /\ Mounted
    /\ RoomForSnapshot
    /\ \E node \in RenderedNodes(mindMapNodes) : \E newText \in Texts :
        /\ newText # node.text
        /\ dispatch([type |-> "UPDATE_NODE_TEXT",
                     payload |-> [nodeId |-> node.id, newText |-> newText]])
    /\ NoAlert /\ UNCHANGED <<selectedNode, isLoading, pending, issued>>
    /\ UNCHANGED probe

\* A handler that dispatches the deletion and leaves the selection alone.
handleDeleteNode_KeepsSelection ==
    /\ Mounted
    /\ RoomForSnapshot
    /\ \E node \in RenderedNodes(mindMapNodes) :
        dispatch([type |-> "DELETE_NODE", payload |-> [nodeId |-> node.id]])
    /\ NoAlert /\ UNCHANGED <<selectedNode, isLoading, pending, issued>>
    /\ UNCHANGED probe

handleDeleteNode ==
    /\ Mounted
    /\ RoomForSnapshot
    /\ \E node \in RenderedNodes(mindMapNodes) :
        LET nodeId == node.id
        IN  /\ dispatch([type |-> "DELETE_NODE", payload |-> [nodeId |-> nodeId]])
            /\ selectedNode' = IF selectedNode # undefined /\ selectedNode[1].id = nodeId
                               THEN undefined ELSE selectedNode
    /\ NoAlert /\ UNCHANGED <<isLoading, pending, issued>>
    /\ UNCHANGED probe

\* The expand button is rendered for nodes that have children.
handleToggleExpand ==
    /\ Mounted
    /\ RoomForSnapshot
    /\ \E node \in RenderedNodes(mindMapNodes) :
        /\ Len(node.children) > 0
        /\ dispatch([type |-> "TOGGLE_EXPAND", payload |-> [nodeId |-> node.id]])
    /\ NoAlert /\ UNCHANGED <<selectedNode, isLoading, pending, issued>>
    /\ UNCHANGED probe

Next ==
    \/ InitEffect
    \/ handleGenerateMindMap \/ handleGenerateMindMap_resume
    \/ handleUpdateMindMap \/ handleUpdateMindMap_resume
    \/ handleAutoRefine \/ handleAutoRefine_resume
    \/ handleMergeDuplicates \/ handleMergeDuplicates_resume
    \/ handleConvertNode_task
    \/ handleConvertNode_flashcard \/ handleConvertNode_flashcard_resume
    \/ handleConvertNode_summary \/ handleConvertNode_summary_resume
    \/ handleGenerateClarifyingQuestions \/ handleGenerateClarifyingQuestions_resume
    \/ onUndo \/ onRedo
    \/ handleSelectNode \/ handleAddChild \/ handleUpdateNodeText
    \/ handleDeleteNode \/ handleToggleExpand

Spec == Init /\ [][Next]_vars

\* The awaited call settles and its handler runs on.  One handler at most is
\* suspended at a time (pending holds it).
Resume ==
    \/ handleGenerateMindMap_resume \/ handleUpdateMindMap_resume
    \/ handleAutoRefine_resume \/ handleMergeDuplicates_resume
    \/ handleConvertNode_flashcard_resume \/ handleConvertNode_summary_resume
    \/ handleGenerateClarifyingQuestions_resume

\* The session under the assumption that every collaborator call completes:
\* a handler suspended on its await is eventually resumed.
LiveSpec == Spec /\ WF_vars(Resume)

(***************************************************************************)
(* The session around one collaborator call.  It starts where the session  *)
(* stands after the mount effect and a first successful Generate (history  *)
(* = [[], F], pointer 1, nothing selected) and follows every handler for   *)
(* as long as a call is in flight or the history is still [[], F] long:    *)
(* the steps before a call, the canvas callbacks while it is in flight,    *)
(* and its return.                                                         *)
(***************************************************************************)
RaceInit ==
    /\ \E m \in MapResponses \ {<<>>} :
        /\ mindMapState =
            SET_NODES(SET_NODES([nodes |-> <<>>, history |-> <<>>, historyPointer |-> -1],
                                <<>>),
                      newRootNodes(m, 0))
        /\ issued = AISize(m)
    /\ selectedNode = undefined
    /\ isLoading = FALSE
    /\ pending = NoCall
    /\ lastAlert = FALSE
    /\ probe = RaceProbe

RaceOpen == isLoading \/ Len(history) = 2

RaceNext ==
    \/ RaceOpen /\ handleGenerateMindMap
    \/ RaceOpen /\ handleGenerateMindMap_resume
    \/ RaceOpen /\ handleUpdateMindMap
    \/ RaceOpen /\ handleUpdateMindMap_resume
    \/ RaceOpen /\ handleAutoRefine
    \/ RaceOpen /\ handleAutoRefine_resume
    \/ RaceOpen /\ handleMergeDuplicates
    \/ RaceOpen /\ handleMergeDuplicates_resume
    \/ RaceOpen /\ handleConvertNode_task
    \/ RaceOpen /\ handleConvertNode_flashcard
    \/ RaceOpen /\ handleConvertNode_flashcard_resume
    \/ RaceOpen /\ handleConvertNode_summary
    \/ RaceOpen /\ handleConvertNode_summary_resume
    \/ RaceOpen /\ handleGenerateClarifyingQuestions
    \/ RaceOpen /\ handleGenerateClarifyingQuestions_resume
    \/ RaceOpen /\ onUndo
    \/ RaceOpen /\ onRedo
    \/ RaceOpen /\ handleSelectNode
    \/ RaceOpen /\ handleAddChild
    \/ RaceOpen /\ handleUpdateNodeText
    \/ RaceOpen /\ handleDeleteNode
    \/ RaceOpen /\ handleToggleExpand

RaceSpec == RaceInit /\ [][RaceNext]_vars

(***************************************************************************)
(* The store on its own: mindMapReducer as a state machine over            *)
(* (nodes, history, historyPointer), driven by every action the reducer    *)
(* accepts, whatever the buttons allow: Undo and Redo at either end of the *)
(* history, target ids that are in the forest and one that is not.         *)
(***************************************************************************)
NoSuchId == null - 1

TargetIds(state) == Ids(state.nodes) \cup {NoSuchId}

\* Reading .map / .filter of undefined, or JSON.parse(undefined), throws: the
\* reducer returns no state.  SET_NODES, UNDO and REDO never read state.nodes.
Throws(state, action) ==
    /\ state.nodes = undefinedNodes
    /\ action.type \in {"ADD_NODE", "UPDATE_NODE_TEXT", "DELETE_NODE", "TOGGLE_EXPAND",
                        "UPDATE_NODE_METADATA"}

\* Metadata updates as the session dispatches them: questions without a
\* status, a summary with its status.
MetadataUpdates ==
    {[metadata |-> MetadataPatch("questions", <<"a", "b">>), status |-> undefined],
     [metadata |-> MetadataPatch("summary", "a"), status |-> <<"summary">>]}

\* P holds of every mutating action on state, new nodes taking ids after n.
ForAllMutating(state, n, P(_)) ==
    /\ \A m \in MapResponses :
        P([type |-> "SET_NODES", payload |-> newRootNodes(m, n)])
    /\ \A parentId \in TargetIds(state) \cup {null} :
        P([type |-> "ADD_NODE",
           payload |-> [parentId |-> parentId, newNode |-> newChildNode(parentId, n)]])
    /\ \A nodeId \in TargetIds(state) :
        /\ \A newText \in Texts :
            P([type |-> "UPDATE_NODE_TEXT",
               payload |-> [nodeId |-> nodeId, newText |-> newText]])
        /\ P([type |-> "DELETE_NODE", payload |-> [nodeId |-> nodeId]])
        /\ P([type |-> "TOGGLE_EXPAND", payload |-> [nodeId |-> nodeId]])
        /\ \A u \in MetadataUpdates :
            P([type |-> "UPDATE_NODE_METADATA",
               payload |-> [nodeId |-> nodeId, metadata |-> u.metadata,
                            status |-> u.status]])

StoreInit == Init

\* One dispatch; what the session holds besides the store stays as it is.
StoreDispatch(action, k) ==
    /\ ~Throws(mindMapState, action)
    /\ dispatch(action)
    /\ issued' = issued + k
    /\ UNCHANGED <<selectedNode, isLoading, pending, lastAlert, probe>>

StoreSetNodes ==
    /\ RoomForSnapshot
    /\ \E m \in MapResponses :
        /\ IdsLeft(AISize(m))
        /\ StoreDispatch([type |-> "SET_NODES", payload |-> newRootNodes(m, issued)],
                         AISize(m))

StoreAddNode ==
    /\ RoomForSnapshot
    /\ IdsLeft(1)
    /\ \E parentId \in TargetIds(mindMapState) \cup {null} :
        StoreDispatch([type |-> "ADD_NODE",
                       payload |-> [parentId |-> parentId,
                                    newNode |-> newChildNode(parentId, issued)]], 1)

StoreUpdateText ==
    /\ RoomForSnapshot
    /\ \E nodeId \in TargetIds(mindMapState) : \E newText \in Texts :
        StoreDispatch([type |-> "UPDATE_NODE_TEXT",
                       payload |-> [nodeId |-> nodeId, newText |-> newText]], 0)

StoreDelete ==
    /\ RoomForSnapshot
    /\ \E nodeId \in TargetIds(mindMapState) :
        StoreDispatch([type |-> "DELETE_NODE", payload |-> [nodeId |-> nodeId]], 0)

StoreToggleExpand ==
    /\ RoomForSnapshot
    /\ \E nodeId \in TargetIds(mindMapState) :
        StoreDispatch([type |-> "TOGGLE_EXPAND", payload |-> [nodeId |-> nodeId]], 0)

StoreUpdateMetadata ==
    /\ RoomForSnapshot
    /\ \E nodeId \in TargetIds(mindMapState) :
        \E u \in MetadataUpdates :
            StoreDispatch([type |-> "UPDATE_NODE_METADATA",
                           payload |-> [nodeId |-> nodeId, metadata |-> u.metadata,
                                        status |-> u.status]], 0)

StoreUndo == StoreDispatch([type |-> "UNDO"], 0)

StoreRedo == StoreDispatch([type |-> "REDO"], 0)

StoreNext ==
    \/ StoreSetNodes \/ StoreAddNode \/ StoreUpdateText \/ StoreDelete
    \/ StoreToggleExpand \/ StoreUpdateMetadata \/ StoreUndo \/ StoreRedo

StoreSpec == StoreInit /\ [][StoreNext]_vars

(***************************************************************************)
(* The store over a heap of objects.  JavaScript arrays and node objects   *)
(* are references: state.nodes and the entries of state.history are the    *)
(* same array objects, and a forest that updateNodeRecursive returns       *)
(* shares with its input every object it did not copy.  mem.arrays maps an *)
(* address to the array stored there (a sequence of node addresses) and    *)
(* mem.objects an address to a node object (a record whose children field  *)
(* is the address of an array).  Strings, booleans and metadata bags are   *)
(* kept as values: the code never writes into a metadata object, it        *)
(* replaces it.  The heap store [mem, nodes, history, historyPointer]      *)
(* lives in probe and runs in step with mindMapState.                      *)
(***************************************************************************)
undefinedRef == null - 1

\* An array literal, or the array a map / filter / slice returns: a new array.
AllocArray(mem, items) ==
    [mem |-> [mem EXCEPT !.arrays = Append(@, items)], ref |-> Len(mem.arrays) + 1]

\* An object literal: a new object.
AllocObject(mem, obj) ==
    [mem |-> [mem EXCEPT !.objects = Append(@, obj)], ref |-> Len(mem.objects) + 1]

\* arr.push(ref): the array at the address grows.
Push(mem, arr, ref) == [mem EXCEPT !.arrays[arr] = Append(@, ref)]

\* An assignment to a field: the object at the address changes.
Write(mem, ref, obj) == [mem EXCEPT !.objects[ref] = obj]

\* The objects a forest value is made of, built children first.
RECURSIVE AllocNodes(_, _), AllocForest(_, _)
AllocNodes(mem, nodes) ==
    IF nodes = <<>> THEN [mem |-> mem, refs |-> <<>>]
    ELSE LET children == AllocForest(mem, Head(nodes).children)
             node == AllocObject(children.mem,
                                 [Head(nodes) EXCEPT !.children = children.ref])
             rest == AllocNodes(node.mem, Tail(nodes))
         IN  [mem |-> rest.mem, refs |-> <<node.ref>> \o rest.refs]

AllocForest(mem, nodes) ==
    LET built == AllocNodes(mem, nodes)
    IN  AllocArray(built.mem, built.refs)

\* The forest value an array object stands for.
RECURSIVE Content(_, _)
Content(mem, arr) ==
    IF arr = undefinedRef THEN undefinedNodes
    ELSE [i \in DOMAIN mem.arrays[arr] |->
            LET node == mem.objects[mem.arrays[arr][i]]
            IN  [node EXCEPT !.children = Content(mem, node.children)]]

\* findNodeById over the items of an array: the address of the node object.
RECURSIVE findNodeByIdInHeap(_, _, _)
findNodeByIdInHeap(mem, items, id) ==
    IF items = <<>> THEN null
    ELSE LET ref == Head(items)
             node == mem.objects[ref]
         IN  IF node.id = id THEN ref
             ELSE LET found == findNodeByIdInHeap(mem, mem.arrays[node.children], id)
                  IN  IF found # null THEN found
                      ELSE findNodeByIdInHeap(mem, Tail(items), id)

\* nodes.map(...) of updateNodeRecursive, item by item: the target is copied
\* shallowly ({ ...node }, so the copy holds the same children array) and
\* updateFn writes into the copy; every other node is copied with a new
\* children array.
RECURSIVE MapUpdate(_, _, _, _), updateNodeRecursiveInHeap(_, _, _, _)
MapUpdate(mem, items, targetId, u) ==
    IF items = <<>> THEN [mem |-> mem, refs |-> <<>>]
    ELSE LET node == mem.objects[Head(items)]
             mapped ==
                IF node.id = targetId
                THEN LET newNode == AllocObject(mem, node)
                     IN  [mem |-> Write(newNode.mem, newNode.ref,
                                        updateFn(u, newNode.mem.objects[newNode.ref])),
                          ref |-> newNode.ref]
                ELSE LET children ==
                            updateNodeRecursiveInHeap(mem, node.children, targetId, u)
                     IN  AllocObject(children.mem,
                                     [node EXCEPT !.children = children.ref])
             rest == MapUpdate(mapped.mem, Tail(items), targetId, u)
         IN  [mem |-> rest.mem, refs |-> <<mapped.ref>> \o rest.refs]

updateNodeRecursiveInHeap(mem, arr, targetId, u) ==
    LET mapped == MapUpdate(mem, mem.arrays[arr], targetId, u)
    IN  AllocArray(mapped.mem, mapped.refs)

\* nodes.filter(...).map(...) of deleteNodeRecursive, item by item.
RECURSIVE FilterMap(_, _, _), deleteNodeRecursiveInHeap(_, _, _)
FilterMap(mem, items, targetId) ==
    IF items = <<>> THEN [mem |-> mem, refs |-> <<>>]
    ELSE LET node == mem.objects[Head(items)]
         IN  IF node.id = targetId THEN FilterMap(mem, Tail(items), targetId)
             ELSE LET children == deleteNodeRecursiveInHeap(mem, node.children, targetId)
                      mapped == AllocObject(children.mem,
                                            [node EXCEPT !.children = children.ref])
                      rest == FilterMap(mapped.mem, Tail(items), targetId)
                  IN  [mem |-> rest.mem, refs |-> <<mapped.ref>> \o rest.refs]

deleteNodeRecursiveInHeap(mem, arr, targetId) ==
    LET mapped == FilterMap(mem, mem.arrays[arr], targetId)
    IN  AllocArray(mapped.mem, mapped.refs)

\* newNodes = state.nodes: the copy forgotten, newNodes is the stored array.
DeepCopyInHeap_SameArray(mem, arr) == [mem |-> mem, ref |-> arr]

\* JSON.parse(JSON.stringify(nodes)): the text of the forest, parsed into
\* objects that are all new.
DeepCopyInHeap(mem, arr) == AllocForest(mem, DeepCopy(Content(mem, arr)))

\* newHistory = state.history.slice(0, pointer + 1); newHistory.push(newNodes):
\* the history array is a new one each time, its entries are the old objects.
HeapSnapshot(state, mem, newNodes) ==
    LET newHistory == Append(slice(state.history, state.historyPointer + 1), newNodes)
    IN  [mem |-> mem,
         nodes |-> newNodes,
         history |-> newHistory,
         historyPointer |-> Len(newHistory) - 1]

\* The payload of SET_NODES is a forest the handler has just built.
HEAP_SET_NODES(state, payload) ==
    LET built == AllocForest(state.mem, payload)
    IN  HeapSnapshot(state, built.mem, built.ref)

HEAP_ADD_NODE(state, payload) ==
    LET newNodes == DeepCopyInHeap(state.mem, state.nodes)
        children == AllocArray(newNodes.mem, payload.newNode.children)
        newNode == AllocObject(children.mem,
                               [payload.newNode EXCEPT !.children = children.ref])
        mem == newNode.mem
        parentNode == findNodeByIdInHeap(mem, mem.arrays[newNodes.ref], payload.parentId)
        pushed ==
            IF payload.parentId = null
            THEN Push(mem, newNodes.ref, newNode.ref)
            ELSE IF parentNode # null
            THEN LET grown == Push(mem, mem.objects[parentNode].children, newNode.ref)
                 IN  Write(grown, parentNode,
                           [grown.objects[parentNode] EXCEPT !.isExpanded = TRUE])
            ELSE mem
    IN  HeapSnapshot(state, pushed, newNodes.ref)

\* UPDATE_NODE_TEXT, TOGGLE_EXPAND, UPDATE_NODE_METADATA: updateNodeRecursive
\* with the updateFn of the case.
HEAP_UPDATE(state, nodeId, u) ==
    LET newNodes == updateNodeRecursiveInHeap(state.mem, state.nodes, nodeId, u)
    IN  HeapSnapshot(state, newNodes.mem, newNodes.ref)

HEAP_DELETE_NODE(state, payload) ==
    LET newNodes == deleteNodeRecursiveInHeap(state.mem, state.nodes, payload.nodeId)
    IN  HeapSnapshot(state, newNodes.mem, newNodes.ref)

\* state.history[i]: the array object itself, or undefined.
AtRef(arr, i) == IF i >= 0 /\ i < Len(arr) THEN arr[i + 1] ELSE undefinedRef

HEAP_UNDO(state) ==
    LET newHistoryPointer == Max(0, state.historyPointer - 1)
    IN  [state EXCEPT !.nodes = AtRef(state.history, newHistoryPointer),
                      !.historyPointer = newHistoryPointer]

HEAP_REDO(state) ==
    LET newHistoryPointer == Min(Len(state.history) - 1, state.historyPointer + 1)
    IN  [state EXCEPT !.nodes = AtRef(state.history, newHistoryPointer),
                      !.historyPointer = newHistoryPointer]

heapReducer(state, action) ==
    CASE action.type = "SET_NODES" -> HEAP_SET_NODES(state, action.payload)
      [] action.type = "ADD_NODE" -> HEAP_ADD_NODE(state, action.payload)
      [] action.type = "UPDATE_NODE_TEXT" ->
            HEAP_UPDATE(state, action.payload.nodeId,
                        [fn |-> "text", newText |-> action.payload.newText])
      [] action.type = "DELETE_NODE" -> HEAP_DELETE_NODE(state, action.payload)
      [] action.type = "TOGGLE_EXPAND" ->
            HEAP_UPDATE(state, action.payload.nodeId, [fn |-> "toggle"])
      [] action.type = "UPDATE_NODE_METADATA" ->
            HEAP_UPDATE(state, action.payload.nodeId,
                        [fn |-> "metadata", metadata |-> action.payload.metadata,
                         status |-> action.payload.status])
      [] action.type = "UNDO" -> HEAP_UNDO(state)
      [] action.type = "REDO" -> HEAP_REDO(state)
      [] OTHER -> state

\* Garbage collection.  The arrays and objects the store still reaches, in
\* the order a walk from history[0], history[1], ... and state.nodes meets
\* them; that order is their address afterwards, so two heaps that differ
\* only in where their objects lie are one state.
InSeq(x, seq) == \E k \in DOMAIN seq : seq[k] = x

IndexIn(seq, x) == CHOOSE k \in DOMAIN seq : seq[k] = x

RECURSIVE VisitArray(_, _, _), VisitItems(_, _, _)
VisitArray(mem, arr, seen) ==
    IF InSeq(arr, seen.arrays) THEN seen
    ELSE VisitItems(mem, mem.arrays[arr], [seen EXCEPT !.arrays = Append(@, arr)])

VisitItems(mem, items, seen) ==
    IF items = <<>> THEN seen
    ELSE LET ref == Head(items)
             next == IF InSeq(ref, seen.objects) THEN seen
                     ELSE VisitArray(mem, mem.objects[ref].children,
                                     [seen EXCEPT !.objects = Append(@, ref)])
         IN  VisitItems(mem, Tail(items), next)

RECURSIVE VisitRoots(_, _, _)
VisitRoots(mem, roots, seen) ==
    IF roots = <<>> THEN seen
    ELSE VisitRoots(mem, Tail(roots),
                    IF Head(roots) = undefinedRef THEN seen
                    ELSE VisitArray(mem, Head(roots), seen))

Collect(state) ==
    LET seen == VisitRoots(state.mem, Append(state.history, state.nodes),
                           [arrays |-> <<>>, objects |-> <<>>])
        moved(arr) == IF arr = undefinedRef THEN undefinedRef
                      ELSE IndexIn(seen.arrays, arr)
    IN  [mem |->
            [arrays |->
                [k \in DOMAIN seen.arrays |->
                    LET items == state.mem.arrays[seen.arrays[k]]
                    IN  [j \in DOMAIN items |-> IndexIn(seen.objects, items[j])]],
             objects |->
                [k \in DOMAIN seen.objects |->
                    LET obj == state.mem.objects[seen.objects[k]]
                    IN  [obj EXCEPT !.children = moved(obj.children)]]],
         nodes |-> moved(state.nodes),
         history |-> [i \in DOMAIN state.history |-> moved(state.history[i])],
         historyPointer |-> state.historyPointer]

\* The arrays reachable from an array.
RECURSIVE ArraysOf(_, _)
ArraysOf(mem, arr) ==
    {arr} \cup UNION {ArraysOf(mem, mem.objects[mem.arrays[arr][i]].children)
                      : i \in DOMAIN mem.arrays[arr]}

HeapInit ==
    /\ mindMapState = [nodes |-> <<>>, history |-> <<>>, historyPointer |-> -1]
    /\ selectedNode = undefined
    /\ isLoading = FALSE
    /\ pending = NoCall
    /\ lastAlert = FALSE
    /\ issued = 0
    /\ LET nodes == AllocForest([arrays |-> <<>>, objects |-> <<>>], <<>>)
       IN  probe = [mem |-> nodes.mem, nodes |-> nodes.ref, history |-> <<>>,
                    historyPointer |-> -1]

\* One dispatch, reduced over the values and over the heap.
HeapDispatch(action, k) ==
    /\ ~Throws(mindMapState, action)
    /\ dispatch(action)
    /\ probe' = Collect(heapReducer(probe, action))
    /\ issued' = issued + k
    /\ UNCHANGED <<selectedNode, isLoading, pending, lastAlert>>

HeapSetNodes ==
    /\ RoomForSnapshot
    /\ \E m \in MapResponses :
        /\ IdsLeft(AISize(m))
        /\ HeapDispatch([type |-> "SET_NODES", payload |-> newRootNodes(m, issued)],
                        AISize(m))

HeapAddNode ==
    /\ RoomForSnapshot
    /\ IdsLeft(1)
    /\ \E parentId \in TargetIds(mindMapState) \cup {null} :
        HeapDispatch([type |-> "ADD_NODE",
                      payload |-> [parentId |-> parentId,
                                   newNode |-> newChildNode(parentId, issued)]], 1)

HeapUpdateText ==
    /\ RoomForSnapshot
    /\ \E nodeId \in TargetIds(mindMapState) : \E newText \in Texts :
        HeapDispatch([type |-> "UPDATE_NODE_TEXT",
                      payload |-> [nodeId |-> nodeId, newText |-> newText]], 0)

HeapDelete ==
    /\ RoomForSnapshot
    /\ \E nodeId \in TargetIds(mindMapState) :
        HeapDispatch([type |-> "DELETE_NODE", payload |-> [nodeId |-> nodeId]], 0)

HeapToggleExpand ==
    /\ RoomForSnapshot
    /\ \E nodeId \in TargetIds(mindMapState) :
        HeapDispatch([type |-> "TOGGLE_EXPAND", payload |-> [nodeId |-> nodeId]], 0)

HeapUpdateMetadata ==
    /\ RoomForSnapshot
    /\ \E nodeId \in TargetIds(mindMapState) :
        \E u \in MetadataUpdates :
            HeapDispatch([type |-> "UPDATE_NODE_METADATA",
                          payload |-> [nodeId |-> nodeId, metadata |-> u.metadata,
                                       status |-> u.status]], 0)

HeapUndo == HeapDispatch([type |-> "UNDO"], 0)

HeapRedo == HeapDispatch([type |-> "REDO"], 0)

HeapNext ==
    \/ HeapSetNodes \/ HeapAddNode \/ HeapUpdateText \/ HeapDelete
    \/ HeapToggleExpand \/ HeapUpdateMetadata \/ HeapUndo \/ HeapRedo

HeapSpec == HeapInit /\ [][HeapNext]_vars

(***************************************************************************)
(* The schema adapter on its own: an AI-shape tree is imported, and the    *)
(* node it gives is exported again.                                        *)
(***************************************************************************)
MaxAINodes == 3     \* nodes of the AI-shape trees tried

AITitles == {"a", "b"}

\* A node of the AI schema without subtopics: a title and any subset of
\* pros, cons, questions.
AINodeHeads ==
    {[title |-> t, subtopics |-> undefined, pros |-> p, cons |-> c, questions |-> q] :
        t \in AITitles, p \in {undefined, << <<"a">> >>},
        c \in {undefined, << <<"b">> >>}, q \in {undefined, << <<"a", "b">> >>}}

\* The AI-shape trees of n nodes, and the sequences of trees of n nodes in all.
RECURSIVE AITreesOfSize(_), AIForestsOfSize(_)
AIForestsOfSize(n) ==
    IF n = 0 THEN {<<>>}
    ELSE UNION {{<<t>> \o rest : t \in AITreesOfSize(k), rest \in AIForestsOfSize(n - k)}
                : k \in 1..n}

AITreesOfSize(n) ==
    {[head EXCEPT !.subtopics = IF subs = <<>> THEN undefined ELSE <<subs>>] :
        head \in AINodeHeads, subs \in AIForestsOfSize(n - 1)}

AdapterInit ==
    /\ mindMapState = [nodes |-> <<>>, history |-> <<>>, historyPointer |-> -1]
    /\ selectedNode = undefined
    /\ isLoading = FALSE
    /\ pending = NoCall
    /\ lastAlert = FALSE
    /\ issued = 0
    /\ \E n \in 1..MaxAINodes : \E aiNode \in AITreesOfSize(n) :
        probe = [stage |-> "aiNode", aiNode |-> aiNode, node |-> undefined,
                 exported |-> undefined]

\* convertAIMapNodeToMindMapNode(aiNode, null, 0)
AdapterImport ==
    /\ probe.stage = "aiNode"
    /\ probe' = [probe EXCEPT
                    !.stage = "node",
                    !.node = <<convertAIMapNodeToMindMapNode(probe.aiNode, null, 0, issued)>>]
    /\ issued' = issued + AISize(<<probe.aiNode>>)
    /\ UNCHANGED <<mindMapState, selectedNode, isLoading, pending, lastAlert>>

\* convertMindMapNodeToAIMapNode(node)
AdapterExport ==
    /\ probe.stage = "node"
    /\ probe' = [probe EXCEPT
                    !.stage = "exported",
                    !.exported = <<convertMindMapNodeToAIMapNode(probe.node[1])>>]
    /\ UNCHANGED <<mindMapState, selectedNode, isLoading, pending, lastAlert, issued>>

AdapterNext == AdapterImport \/ AdapterExport

AdapterSpec == AdapterInit /\ [][AdapterNext]_vars

(***************************************************************************)
(* The export on its own: convertMindMapNodeToAIMapNode applied to a tree  *)
(* of MindMapNode objects of any metadata the type allows, not only those  *)
(* an import gives.                                                        *)
(***************************************************************************)
\* What a node carries besides its text and its place in the tree: as
\* handleAddChild creates it, as an import leaves it (here collapsed since),
\* with pros alone, cons alone, both and questions, questions alone, and
\* converted to a summary and to a task.
NodeDecorations ==
    {[metadata |-> undefined, status |-> undefined, isExpanded |-> TRUE],
     [metadata |-> <<EmptyMetadata>>, status |-> undefined, isExpanded |-> FALSE],
     [metadata |-> <<MetadataPatch("pros", <<"a">>)>>, status |-> undefined,
      isExpanded |-> TRUE],
     [metadata |-> <<MetadataPatch("cons", <<"b">>)>>, status |-> undefined,
      isExpanded |-> TRUE],
     [metadata |-> <<[EmptyMetadata EXCEPT !.pros = << <<"a">> >>, !.cons = << <<"b">> >>,
                                           !.questions = << <<"a", "b">> >>]>>,
      status |-> undefined, isExpanded |-> TRUE],
     [metadata |-> <<MetadataPatch("summary", "a")>>, status |-> <<"summary">>,
      isExpanded |-> TRUE],
     [metadata |-> <<[EmptyMetadata EXCEPT
                        !.questions = << <<"a">> >>,
                        !.task = <<[description |-> <<"Complete", "a">>,
                                    completed |-> FALSE, dueDate |-> undefined]>>]>>,
      status |-> <<"task">>, isExpanded |-> FALSE]}

\* The trees of n nodes under parentId at the given level, their ids taken
\* in order from first, and the sequences of such trees of n nodes in all.
RECURSIVE NodeTreesOfSize(_, _, _, _), NodeForestsOfSize(_, _, _, _)
NodeForestsOfSize(n, parentId, level, first) ==
    IF n = 0 THEN {<<>>}
    ELSE UNION {{<<t>> \o rest :
                    t \in NodeTreesOfSize(k, parentId, level, first),
                    rest \in NodeForestsOfSize(n - k, parentId, level, first + k)}
                : k \in 1..n}

NodeTreesOfSize(n, parentId, level, first) ==
    {[id |-> first,
      text |-> text,
      children |-> children,
      parentId |-> parentId,
      isExpanded |-> d.isExpanded,
      type |-> nodeTypeForLevel(level),
      tags |-> <<>>,
      status |-> d.status,
      metadata |-> d.metadata] :
        text \in AITitles, d \in NodeDecorations,
        children \in NodeForestsOfSize(n - 1, first, level + 1, first + 1)}

ExportInit ==
    /\ mindMapState = [nodes |-> <<>>, history |-> <<>>, historyPointer |-> -1]
    /\ selectedNode = undefined
    /\ isLoading = FALSE
    /\ pending = NoCall
    /\ lastAlert = FALSE
    /\ \E n \in 1..MaxAINodes : \E node \in NodeTreesOfSize(n, null, 0, 1) :
        /\ issued = n
        /\ probe = [stage |-> "node", aiNode |-> undefined, node |-> <<node>>,
                    exported |-> undefined]

ExportSpec == ExportInit /\ [][AdapterExport]_vars

(***************************************************************************)
(* The collaborator client on its own: one call of a geminiService         *)
(* function, from its first generateContent request to the value it        *)
(* settles with.  probe holds the call: the function, the mode it was      *)
(* given, where it stands, the requests it has sent, the responses it has  *)
(* received and its result.                                                *)
(***************************************************************************)
MindMapMode == {"STUDY", "PROJECT_PLANNING", "DEBATE", "GENERAL"}

\* The model names are GEMINI_PRO_MODEL and GEMINI_FLASH_MODEL.
getModelForMode(mode) ==
    IF mode \in {"STUDY", "PROJECT_PLANNING", "DEBATE"} THEN "GEMINI_PRO_MODEL"
    ELSE "GEMINI_FLASH_MODEL"

\* The functions that return a forest, and those that return content for
\* one node.
MapFunctions == {"generateMindMapStructure", "refineMindMapStructure", "mergeDuplicateIdeas"}
NodeFunctions == {"generateFlashcard", "generateSummary", "generateClarifyingQuestions"}

\* The model a function sends its request to.
ModelOf(fn, mode) ==
    CASE fn \in MapFunctions -> getModelForMode(mode)
      [] fn \in {"generateFlashcard", "generateSummary"} -> "GEMINI_FLASH_MODEL"
      [] fn = "generateClarifyingQuestions" -> "GEMINI_PRO_MODEL"

\* What JSON.parse gives for a response text that is JSON.
ParsedValues(fn) ==
    CASE fn \in MapFunctions ->
            {[map |-> <<m>>] : m \in MapResponses} \cup {[map |-> undefined]}
      [] fn = "generateFlashcard" -> {[front |-> "a", back |-> "b"]}
      [] fn = "generateSummary" -> {[summary |-> "a"]}
      [] fn = "generateClarifyingQuestions" ->
            {[questions |-> undefined], [questions |-> << <<"a", "b">> >>]}

\* What a generateContent request comes back with: a rejection, a response
\* without text, a text that is not JSON, a text that is.
ServiceResponses(fn) ==
    {[kind |-> "rejected", value |-> undefined], [kind |-> "empty", value |-> undefined],
     [kind |-> "malformed", value |-> undefined]}
    \cup {[kind |-> "json", value |-> <<v>>] : v \in ParsedValues(fn)}

Settled(kind, value) == [kind |-> kind, value |-> value]

ServiceInit ==
    /\ mindMapState = [nodes |-> <<>>, history |-> <<>>, historyPointer |-> -1]
    /\ selectedNode = undefined
    /\ isLoading = FALSE
    /\ pending = NoCall
    /\ lastAlert = FALSE
    /\ issued = 0
    /\ \E fn \in MapFunctions \cup NodeFunctions :
        \E mode \in IF fn \in MapFunctions THEN MindMapMode ELSE {"GENERAL"} :
            probe = [stage |-> "service", fn |-> fn, mode |-> mode, pc |-> "start",
                     requests |-> <<>>, responses |-> <<>>,
                     result |-> Settled("pending", undefined)]

\* await ai.models.generateContent(...): the first request goes out.
ServiceRequest ==
    /\ probe.stage = "service"
    /\ probe.pc = "start"
    /\ probe' = [probe EXCEPT
                    !.pc = "awaiting",
                    !.requests = Append(@, [model |-> ModelOf(probe.fn, probe.mode),
                                            prompt |-> "content"])]
    /\ UNCHANGED <<mindMapState, selectedNode, isLoading, pending, lastAlert, issued>>

\* The value the function settles with when the first request comes back
\* as r and no second request is made.
FirstOutcome(fn, r) ==
    CASE r.kind = "json" -> Settled("value", r.value)
      [] r.kind = "empty" -> Settled("null", undefined)
      [] r.kind = "rejected" ->
            \* generateMindMapStructure rethrows, the others return null
            IF fn = "generateMindMapStructure" THEN Settled("throw", undefined)
            ELSE Settled("null", undefined)
      [] r.kind = "malformed" ->
            \* JSON.parse throws inside the try block: the catch returns null
            Settled("null", undefined)

\* The first response arrives.  generateMindMapStructure catches the parse
\* error of a text that is not JSON and sends the re-format request; every
\* other function settles.
ServiceRespond ==
    /\ probe.stage = "service"
    /\ probe.pc = "awaiting"
    /\ \E r \in ServiceResponses(probe.fn) :
        probe' =
            IF probe.fn = "generateMindMapStructure" /\ r.kind = "malformed"
            THEN [probe EXCEPT
                    !.pc = "awaitingRetry",
                    !.responses = Append(@, r),
                    !.requests = Append(@, [model |-> ModelOf(probe.fn, probe.mode),
                                            prompt |-> "re-format"])]
            ELSE [probe EXCEPT
                    !.pc = "done",
                    !.responses = Append(@, r),
                    !.result = FirstOutcome(probe.fn, r)]
    /\ UNCHANGED <<mindMapState, selectedNode, isLoading, pending, lastAlert, issued>>

\* The response to the re-format request arrives (generateMindMapStructure
\* only): its text parsed, null when there is none or it does not parse; a
\* rejection goes to the outer catch, which rethrows.
ServiceRetryRespond ==
    /\ probe.stage = "service"
    /\ probe.pc = "awaitingRetry"
    /\ \E r \in ServiceResponses(probe.fn) :
        probe' = [probe EXCEPT
                    !.pc = "done",
                    !.responses = Append(@, r),
                    !.result = CASE r.kind = "json" -> Settled("value", r.value)
                                 [] r.kind = "rejected" -> Settled("throw", undefined)
                                 [] OTHER -> Settled("null", undefined)]
    /\ UNCHANGED <<mindMapState, selectedNode, isLoading, pending, lastAlert, issued>>

ServiceNext == ServiceRequest \/ ServiceRespond \/ ServiceRetryRespond

ServiceSpec == ServiceInit /\ [][ServiceNext]_vars

(***************************************************************************)
(* transcribeAudio: the promise it returns, the callbacks of the live      *)
(* session it opens and its timeout.  probe holds the call: where it       *)
(* stands, the flag transcriptionHandled, how the promise settled (the     *)
(* first resolve or reject decides, as promises do), how many times        *)
(* resolve or reject was called, whether sessionPromise.then(close) was     *)
(* registered, the session promise, the timer, and the callbacks that have  *)
(* run so far.                                                              *)
(***************************************************************************)
TranscribeInit ==
    /\ mindMapState = [nodes |-> <<>>, history |-> <<>>, historyPointer |-> -1]
    /\ selectedNode = undefined
    /\ isLoading = FALSE
    /\ pending = NoCall
    /\ lastAlert = FALSE
    /\ issued = 0
    /\ probe = [stage |-> "transcribe", pc |-> "reading", transcriptionHandled |-> FALSE,
                outcome |-> "pending", settles |-> 0, closeRequested |-> FALSE,
                session |-> "none", sent |-> FALSE, timer |-> "none", fired |-> {}]

\* resolve(...) or reject(...): the promise keeps its first settlement.
Settle(p, outcome) ==
    [p EXCEPT !.outcome = IF p.settles = 0 THEN outcome ELSE @,
              !.settles = @ + 1]

\* if (!transcriptionHandled) { transcriptionHandled = true; resolve or
\* reject; and, where the callback has it, sessionPromise.then(close) }
HandleOnce(p, event, outcome, closes) ==
    IF p.transcriptionHandled THEN [p EXCEPT !.fired = @ \cup {event}]
    ELSE [Settle(p, outcome) EXCEPT
            !.transcriptionHandled = TRUE,
            !.closeRequested = @ \/ closes,
            !.fired = @ \cup {event}]

\* reader.readAsDataURL(audioBlob) up to the end of reader.onloadend.  The
\* read fails (reader.onerror rejects, and onloadend, which follows it with
\* no result, rejects again), or onloadend finds no result, or
\* ai.live.connect throws into the catch block, or the session is being
\* connected and the timer is set.
TranscribeRead ==
    /\ probe.stage = "transcribe"
    /\ probe.pc = "reading"
    /\ \/ probe' = [Settle(Settle(probe, "readError"), "noResult") EXCEPT !.pc = "done"]
       \/ probe' = [Settle(probe, "noResult") EXCEPT !.pc = "done"]
       \/ probe' = [Settle(probe, "throw") EXCEPT
                        !.pc = "done", !.transcriptionHandled = TRUE]
       \/ probe' = [probe EXCEPT !.pc = "live", !.session = "pending", !.timer = "armed"]
    /\ UNCHANGED <<mindMapState, selectedNode, isLoading, pending, lastAlert, issued>>

\* sessionPromise resolves: the then callback sends the audio.
TranscribeSessionOpens ==
    /\ probe.stage = "transcribe"
    /\ probe.pc = "live" /\ probe.session = "pending"
    /\ probe' = [probe EXCEPT !.session = "open", !.sent = TRUE]
    /\ UNCHANGED <<mindMapState, selectedNode, isLoading, pending, lastAlert, issued>>

\* sessionPromise rejects: the catch callback.
TranscribeSessionFails ==
    /\ probe.stage = "transcribe"
    /\ probe.pc = "live" /\ probe.session = "pending"
    /\ probe' = [HandleOnce(probe, "connectFailure", "connect", FALSE) EXCEPT
                    !.session = "failed"]
    /\ UNCHANGED <<mindMapState, selectedNode, isLoading, pending, lastAlert, issued>>

\* onmessage: a transcription text, a turnComplete without one, or any other
\* message, which the callback ignores.
TranscribeOnMessage ==
    /\ probe.stage = "transcribe"
    /\ probe.pc = "live" /\ probe.session = "open"
    /\ \/ probe' = HandleOnce(probe, "transcription", "text", TRUE)
       \/ probe' = HandleOnce(probe, "turnComplete", "empty", TRUE)
       \/ probe' = [probe EXCEPT !.fired = @ \cup {"other"}]
    /\ UNCHANGED <<mindMapState, selectedNode, isLoading, pending, lastAlert, issued>>

TranscribeOnError ==
    /\ probe.stage = "transcribe"
    /\ probe.pc = "live"
    /\ probe' = HandleOnce(probe, "error", "error", TRUE)
    /\ UNCHANGED <<mindMapState, selectedNode, isLoading, pending, lastAlert, issued>>

\* An onclose that rejects without looking at the flag.
TranscribeOnClose_Unchecked ==
    /\ probe.stage = "transcribe"
    /\ probe.pc = "live" /\ "close" \notin probe.fired
    /\ probe' = [Settle(probe, "closed") EXCEPT
                    !.transcriptionHandled = TRUE,
                    !.fired = @ \cup {"close"}]
    /\ UNCHANGED <<mindMapState, selectedNode, isLoading, pending, lastAlert, issued>>

\* onclose: the connection closes once.
TranscribeOnClose ==
    /\ probe.stage = "transcribe"
    /\ probe.pc = "live" /\ "close" \notin probe.fired
    /\ probe' = HandleOnce(probe, "close", "closed", FALSE)
    /\ UNCHANGED <<mindMapState, selectedNode, isLoading, pending, lastAlert, issued>>

\* A timeout callback that asks for the close and forgets to reject.
TranscribeTimeout_OnlyCloses ==
    /\ probe.stage = "transcribe"
    /\ probe.pc = "live" /\ probe.timer = "armed"
    /\ probe' = [probe EXCEPT
                    !.timer = "fired",
                    !.transcriptionHandled = TRUE,
                    !.closeRequested = TRUE,
                    !.fired = @ \cup {"timeout"}]
    /\ UNCHANGED <<mindMapState, selectedNode, isLoading, pending, lastAlert, issued>>

\* The setTimeout callback, 20 s after the session was asked for.
TranscribeTimeout ==
    /\ probe.stage = "transcribe"
    /\ probe.pc = "live" /\ probe.timer = "armed"
    /\ probe' = [HandleOnce(probe, "timeout", "timeout", TRUE) EXCEPT !.timer = "fired"]
    /\ UNCHANGED <<mindMapState, selectedNode, isLoading, pending, lastAlert, issued>>

TranscribeNext ==
    \/ TranscribeRead
    \/ TranscribeSessionOpens \/ TranscribeSessionFails
    \/ TranscribeOnMessage \/ TranscribeOnError \/ TranscribeOnClose
    \/ TranscribeTimeout

TranscribeSpec == TranscribeInit /\ [][TranscribeNext]_vars

\* A timer that was set fires.
TranscribeLiveSpec == TranscribeSpec /\ WF_vars(TranscribeTimeout)

(***************************************************************************)
(* Properties                                                              *)
(***************************************************************************)
Undo == [type |-> "UNDO"]
Redo == [type |-> "REDO"]

\* C1: in every reachable store state whose history is not empty, for every
\* mutating action (SetForest, AddNode, UpdateText, Delete, ToggleExpand,
\* UpdateMetadata): the action followed by Undo gives back the forest the
\* action started from, and a Redo after that gives the forest the action
\* produced.
C1_UndoRedoRoundTrip ==
    Len(history) >= 1 =>
        ForAllMutating(mindMapState, issued, LAMBDA action :
            LET acted == mindMapReducer(mindMapState, action)
                undone == mindMapReducer(acted, Undo)
                redone == mindMapReducer(undone, Redo)
            IN  /\ undone.nodes = mindMapNodes
                /\ redone.nodes = acted.nodes)

\* The scenario of the specification after its Undo: the forest is [A], A
\* without children, and the snapshot Redo would restore is [A{children:[B]}]
\* with A expanded.
C1_Witness ==
    /\ Len(history) >= 3
    /\ historyPointer = Len(history) - 2
    /\ Len(mindMapNodes) = 1
    /\ mindMapNodes[1].children = <<>>
    /\ mindMapNodes = history[historyPointer + 1]
    /\ LET redo == history[historyPointer + 2]
       IN  /\ Len(redo) = 1
           /\ redo[1].id = mindMapNodes[1].id
           /\ redo[1].isExpanded
           /\ Len(redo[1].children) = 1
           /\ redo[1].children[1].text = "New Idea"

\* C2: once Undo has left redoable snapshots behind the pointer, every
\* mutating action drops them all: the history becomes the snapshots up to
\* the pointer followed by the new forest, the pointer is its last index, and
\* Redo, dispatched once or twice, changes nothing.
C2_RedoDiscarded ==
    (Len(history) >= 1 /\ historyPointer >= 0 /\ historyPointer < Len(history) - 1) =>
        ForAllMutating(mindMapState, issued, LAMBDA action :
            LET acted == mindMapReducer(mindMapState, action)
                redone == mindMapReducer(acted, Redo)
            IN  /\ acted.history =
                    Append(SubSeq(history, 1, historyPointer + 1), acted.nodes)
                /\ acted.historyPointer = Len(acted.history) - 1
                /\ redone = acted
                /\ mindMapReducer(redone, Redo) = acted)

\* An id was handed out, no snapshot of the history holds it any more and
\* the pointer is at the end: the snapshot that held it was redoable and a
\* mutating action has dropped it.
C2_Witness ==
    /\ Len(history) >= 2
    /\ historyPointer = Len(history) - 1
    /\ \E id \in 1..issued : \A i \in DOMAIN history : id \notin Ids(history[i])

\* C3: whenever the history holds a snapshot, 0 <= pointer <= len - 1, after
\* any sequence of SetForest, AddNode, UpdateText, Delete, ToggleExpand,
\* UpdateMetadata, Undo and Redo.
C3_PointerInRange ==
    Len(history) >= 1 =>
        (0 <= historyPointer /\ historyPointer <= Len(history) - 1)

\* Undo was dispatched twice: three snapshots, the pointer back at the first.
C3_Witness == Len(history) = 3 /\ historyPointer = 0

\* C5 (as stated): a step that destroys the selected node - a Delete of it or
\* of an ancestor, or a forest replacement, all of which append a snapshot in
\* which its id is gone - leaves the selection none.
C5_SelectionInvalidated ==
    [][(/\ selectedNode # undefined
        /\ selectedNode[1].id \in Ids(mindMapNodes)
        /\ history' # history
        /\ selectedNode[1].id \notin Ids(mindMapNodes'))
       => selectedNode' = undefined]_vars

MapCallKinds == {"generate", "update", "autoRefine", "merge"}
NodeCallKinds == {"flashcard", "summary", "questions"}

\* C6: a step in which an AI-invoking handler (generate, update, auto-refine,
\* merge, flashcard, summary, questions) resumes with a failed call - a throw,
\* no result, or a result without the expected content - leaves forest,
\* history and pointer as they were and raises an alert.
C6_FailureLeavesState ==
    [][/\ \A kind \in MapCallKinds : \A r \in MapOutcomes :
            (r.kind # "ok" /\ ResumeMapCall(kind, r))
                => (mindMapState' = mindMapState /\ lastAlert')
       /\ \A kind \in NodeCallKinds :
            ResumeNodeCall(kind, FALSE, EmptyMetadata, undefined)
                => (mindMapState' = mindMapState /\ lastAlert')]_vars

\* A call has just failed on a forest that is not empty: the alert is up, the
\* handler is done.
C6_Witness ==
    /\ lastAlert
    /\ pending = NoCall
    /\ mindMapNodes # <<>>
    /\ Len(history) >= 2

\* C7: a step that starts a collaborator call sets isLoading, the step that
\* resumes its handler clears it, whatever the outcome; and, every call
\* completing, isLoading = TRUE leads to isLoading = FALSE: at any time
\* isLoading is FALSE now or later.
C7_BusyCleared ==
    /\ [][/\ (pending.kind = "none" /\ pending'.kind # "none") => isLoading'
          /\ (pending.kind # "none" /\ pending'.kind = "none") => ~isLoading']_vars
    /\ []<>(~isLoading)

\* A handler is suspended on its call with the busy flag up.
C7_Witness == isLoading /\ pending.kind = "questions"

\* C9: no two nodes of the current forest, roots and descendants together,
\* have the same id.
C9_UniqueIds == Cardinality(Ids(mindMapNodes)) = Len(IdSeq(mindMapNodes))

\* Three nodes in the forest, imported ones and one the user added, with the
\* history walked back and forth (a snapshot is redoable or was restored).
C9_Witness ==
    /\ Len(IdSeq(mindMapNodes)) = 3
    /\ \E id \in Ids(mindMapNodes) :
        findNodeById(mindMapNodes, id)[1].text = "New Idea"
    /\ \E id \in Ids(mindMapNodes) :
        findNodeById(mindMapNodes, id)[1].type = MAIN_TOPIC

\* The type the specification gives a node created at a depth.
TypeAtDepth(depth) ==
    CASE depth = 0 -> MAIN_TOPIC
      [] depth = 1 -> SUB_TOPIC
      [] OTHER -> DETAIL

RECURSIVE TypesFollowDepth(_, _)
TypesFollowDepth(nodes, depth) ==
    \A i \in DOMAIN nodes :
        /\ nodes[i].type = TypeAtDepth(depth)
        /\ TypesFollowDepth(nodes[i].children, depth + 1)

\* What a forest says of its nodes: id, type and depth of each.
RECURSIVE NodeFacts(_, _)
NodeFacts(nodes, depth) ==
    UNION {{[id |-> nodes[i].id, type |-> nodes[i].type, depth |-> depth]}
           \cup NodeFacts(nodes[i].children, depth + 1) : i \in DOMAIN nodes}

\* C10 (as stated): every node of the forest has the type of its depth:
\* MAIN_TOPIC at 0, SUB_TOPIC at 1, DETAIL at 2 or more.  No operation moves a
\* node, so the depth of a node is the depth it was created at.
C10_TypeFromDepth == TypesFollowDepth(mindMapNodes, 0)

\* C10 (amended): a node created by AI import gets its type from the depth it
\* is created at (MAIN_TOPIC at 0, SUB_TOPIC at 1, DETAIL at 2 or more); a
\* node created by the add-child action is a DETAIL at whatever depth; and no
\* operation changes the type of a node: a node of the forest after a step has
\* the type it has in every snapshot of the history that holds it.
\* A step creates the nodes whose ids were not handed out before it; it is an
\* import when the forest after it holds no older node.
C10_TypeAtCreation ==
    [][mindMapState' # mindMapState =>
        LET now == NodeFacts(mindMapNodes', 0)
            before == UNION {NodeFacts(history[i], 0) : i \in DOMAIN history}
            imported == \A f \in now : f.id > issued
        IN  \A f \in now :
                IF f.id > issued
                THEN f.type = (IF imported THEN TypeAtDepth(f.depth) ELSE DETAIL)
                ELSE \A g \in before : g.id = f.id => g.type = f.type]_vars

\* A root with an imported child, a SUB_TOPIC, and a child the user added, a
\* DETAIL.
C10_Witness ==
    \E i \in DOMAIN mindMapNodes :
        LET root == mindMapNodes[i]
        IN  /\ root.type = MAIN_TOPIC
            /\ \E j, k \in DOMAIN root.children :
                /\ root.children[j].type = SUB_TOPIC
                /\ root.children[k].type = DETAIL
                /\ root.children[k].text = "New Idea"

\* The heap store and the store of values tell the same forest, history and
\* pointer.
HeapAgreesWithStore ==
    /\ Content(probe.mem, probe.nodes) = mindMapNodes
    /\ probe.historyPointer = historyPointer
    /\ Len(probe.history) = Len(history)
    /\ \A i \in DOMAIN history : Content(probe.mem, probe.history[i]) = history[i]

\* C4: no dispatch writes into a stored snapshot.  The snapshots up to the
\* pointer stay in the history over every dispatch, and all of them over Undo
\* and Redo: each of them stands for the same forest (every node's text,
\* children, isExpanded, metadata, status and the rest) after the step as
\* before it.
C4_SnapshotsImmutable ==
    [][/\ \A i \in 1..Min(probe.historyPointer + 1, Len(probe.history)) :
            /\ i \in DOMAIN probe'.history
            /\ Content(probe'.mem, probe'.history[i]) = Content(probe.mem, probe.history[i])
       /\ (HeapUndo \/ HeapRedo) =>
            /\ Len(probe'.history) = Len(probe.history)
            /\ \A i \in DOMAIN probe.history :
                Content(probe'.mem, probe'.history[i]) = Content(probe.mem, probe.history[i])
      ]_vars

\* Two snapshots of the history share an array (updateNodeRecursive copied
\* the target shallowly, so both nodes hold the same children array), they
\* differ in content, and the forest is the later of them.
C4_Witness ==
    /\ Len(probe.history) = 3
    /\ probe.historyPointer = 2
    /\ ArraysOf(probe.mem, probe.history[2]) \cap ArraysOf(probe.mem, probe.history[3]) # {}
    /\ history[2] # history[3]

RECURSIVE SameAIContent(_, _)
SameAIContent(x, y) ==
    LET xs == IF x.subtopics = undefined THEN <<>> ELSE x.subtopics[1]
        ys == IF y.subtopics = undefined THEN <<>> ELSE y.subtopics[1]
    IN  /\ y.title = x.title
        /\ y.pros = x.pros
        /\ y.cons = x.cons
        /\ y.questions = x.questions
        /\ Len(ys) = Len(xs)
        /\ \A i \in DOMAIN xs : SameAIContent(xs[i], ys[i])

\* C8 (as stated): for every AI-shape tree x, Export(Import(x)) has the shape
\* and order of x and, node by node, its title, pros, cons and questions.
C8_RoundTrip ==
    probe.stage = "exported" => SameAIContent(probe.aiNode, probe.exported[1])

\* A node without its subtree, and the ids of the nodes of an array in order.
Own(node) == [node EXCEPT !.children = <<>>]

ChildIds(nodes) == [i \in DOMAIN nodes |-> nodes[i].id]

\* What a forest says of each of its nodes: the node whose children hold it
\* (null for a root), its own fields, and the ids of its children in order.
RECURSIVE Entries(_, _)
Entries(nodes, parent) ==
    UNION {{[parent |-> parent, own |-> Own(nodes[i]),
             childIds |-> ChildIds(nodes[i].children)]}
           \cup Entries(nodes[i].children, nodes[i].id) : i \in DOMAIN nodes}

\* The ids of a node and of all its descendants.
SubtreeIds(nodes, id) == Ids(findNodeById(nodes, id))

\* A sequence of ids without those of a set, the others in their order.
Without(ids, gone) == SelectSeq(ids, LAMBDA x : x \notin gone)

\* C11: for the forest F of every reachable store state and every id in F,
\* deleteNode(F, id) holds neither the node nor any of its descendants, and
\* holds every other node of F with the same fields, under the same parent,
\* the children that remain (and the roots that remain) in their old order.
C11_DeleteRemovesSubtree ==
    mindMapNodes # undefinedNodes =>
        \A id \in Ids(mindMapNodes) :
            LET F == mindMapNodes
                G == deleteNodeRecursive(F, id)
                gone == SubtreeIds(F, id)
            IN  /\ Ids(G) \cap gone = {}
                /\ ChildIds(G) = Without(ChildIds(F), gone)
                /\ Entries(G, null) =
                    {[e EXCEPT !.childIds = Without(@, gone)] :
                        e \in {x \in Entries(F, null) : x.own.id \notin gone}}

\* Delete has just removed a node together with a descendant from a forest
\* of which other nodes remain.
C11_Witness ==
    /\ Len(history) = 3
    /\ historyPointer = 2
    /\ mindMapNodes # <<>>
    /\ \E id \in Ids(history[2]) :
        /\ Cardinality(SubtreeIds(history[2], id)) >= 2
        /\ mindMapNodes = deleteNodeRecursive(history[2], id)

\* The mutators the reducer passes to updateNode, with every argument the
\* store dispatches them with.
Mutators ==
    {[fn |-> "toggle"]}
    \cup {[fn |-> "text", newText |-> t] : t \in Texts}
    \cup {[fn |-> "metadata", metadata |-> m.metadata, status |-> m.status] :
            m \in MetadataUpdates}

\* C12: for the forest F of every reachable store state and an id that is
\* nowhere in F, updateNode(F, id, mutator), for every mutator, and
\* deleteNode(F, id) are F: the same nodes, fields and order.
C12_AbsentIdNoOp ==
    mindMapNodes # undefinedNodes =>
        LET F == mindMapNodes
        IN  \A id \in {NoSuchId} \cup ((1..MaxId + 1) \ Ids(F)) :
                /\ \A u \in Mutators : updateNodeRecursive(F, id, u) = F
                /\ deleteNodeRecursive(F, id) = F

\* An action with an absent target has just been dispatched on a forest that
\* is not empty: the last two snapshots are equal, no id was handed out for
\* the step (so it was no AddNode), and no node has a text that UpdateText
\* could have written again.
C12_Witness ==
    /\ Len(history) = 3
    /\ historyPointer = 2
    /\ mindMapNodes # <<>>
    /\ history[3] = history[2]
    /\ issued = Cardinality(UNION {Ids(history[i]) : i \in DOMAIN history})
    /\ \A e \in Entries(mindMapNodes, null) : e.own.text \notin Texts

\* C13: in every reachable store state, AddNode(null, n) gives the old roots
\* in their order followed by n; AddNode(p, n) for every p in the forest gives
\* the same roots, p with its old children in their order followed by n and
\* with isExpanded true, n under p, and every other node as it was.
C13_AddNodeAppends ==
    mindMapNodes # undefinedNodes =>
        \A p \in Ids(mindMapNodes) \cup {null} :
            LET F == mindMapNodes
                n == newChildNode(p, issued)
                G == ADD_NODE(mindMapState, [parentId |-> p, newNode |-> n]).nodes
            IN  IF p = null
                THEN G = Append(F, n)
                ELSE /\ ChildIds(G) = ChildIds(F)
                     /\ Entries(G, null) =
                            {IF e.own.id = p
                             THEN [e EXCEPT !.childIds = Append(@, n.id),
                                            !.own.isExpanded = TRUE]
                             ELSE e : e \in Entries(F, null)}
                            \cup {[parent |-> p, own |-> n, childIds |-> <<>>]}

\* AddNode has just put a child behind the child a collapsed root had: the
\* root is expanded now.
C13_Witness ==
    /\ Len(history) = 3
    /\ historyPointer = 2
    /\ Len(history[2]) = 1
    /\ Len(mindMapNodes) = 1
    /\ ~history[2][1].isExpanded
    /\ mindMapNodes[1].isExpanded
    /\ Len(history[2][1].children) = 1
    /\ ChildIds(mindMapNodes[1].children) =
            Append(ChildIds(history[2][1].children), issued)

\* C14: in every reachable store state, AddNode(p, n) with p not null and
\* nowhere in the forest gives a forest equal to the old one, without n, and a
\* history that is the snapshots up to the pointer followed by that forest:
\* its length is the old pointer + 2 and the pointer is the old pointer + 1.
C14_UnknownParentSnapshot ==
    mindMapNodes # undefinedNodes =>
        \A p \in {NoSuchId} \cup ((1..MaxId + 1) \ Ids(mindMapNodes)) :
            LET n == newChildNode(p, issued)
                acted == ADD_NODE(mindMapState, [parentId |-> p, newNode |-> n])
            IN  /\ acted.nodes = mindMapNodes
                /\ n.id \notin Ids(acted.nodes)
                /\ acted.history =
                        Append(SubSeq(history, 1, historyPointer + 1), mindMapNodes)
                /\ Len(acted.history) = historyPointer + 2
                /\ acted.historyPointer = historyPointer + 1

\* What AddNode with an unknown parent leaves behind: the last two snapshots
\* are the same forest, not empty, and the id handed out for the new node is
\* in no snapshot.
C14_Witness ==
    /\ Len(history) = 3
    /\ historyPointer = 2
    /\ mindMapNodes # <<>>
    /\ history[3] = history[2]
    /\ history[2] # history[1]
    /\ issued > 0
    /\ \A i \in DOMAIN history : issued \notin Ids(history[i])

\* C15: in every reachable store state whose pointer is -1 (nothing recorded
\* yet) or an index of the history, every mutating action (SetForest,
\* AddNode, UpdateText, Delete, ToggleExpand, UpdateMetadata) the reducer
\* returns from gives history' = the snapshots up to the pointer, unchanged,
\* followed by one new snapshot; pointer' = len(history') - 1 = pointer + 1;
\* and forest' = that new snapshot.
C15_LinearHistory ==
    historyPointer < Len(history) =>
        ForAllMutating(mindMapState, issued, LAMBDA action :
            ~Throws(mindMapState, action) =>
                LET acted == mindMapReducer(mindMapState, action)
                IN  /\ Len(acted.history) = historyPointer + 2
                    /\ \A i \in 1..historyPointer + 1 : acted.history[i] = history[i]
                    /\ acted.historyPointer = Len(acted.history) - 1
                    /\ acted.historyPointer = historyPointer + 1
                    /\ acted.nodes = acted.history[Len(acted.history)])

\* Three mutating actions in a row, each leaving a forest of its own: the
\* history holds the three, the pointer is on the last, the forest is the last.
C15_Witness ==
    /\ Len(history) = 3
    /\ historyPointer = 2
    /\ mindMapNodes = history[3]
    /\ history[1] # <<>>
    /\ history[1] # history[2]
    /\ history[2] # history[3]
    /\ history[1] # history[3]

\* C16: in every reachable store state, UpdateMetadata(id, patch, status?) on
\* a node of the forest gives that node a metadata bag holding every key of
\* the patch with the patch's value and every other key as the node had it;
\* its status is the given one, or the old one when none is given; its other
\* fields and children, and every other node, are as they were.
C16_MetadataMerges ==
    mindMapNodes # undefinedNodes =>
        \A id \in Ids(mindMapNodes) : \A u \in MetadataUpdates :
            LET F == mindMapNodes
                G == UPDATE_NODE_METADATA(mindMapState,
                        [nodeId |-> id, metadata |-> u.metadata,
                         status |-> u.status]).nodes
                old == findNodeById(F, id)[1]
                new == findNodeById(G, id)[1]
                had(k) == IF old.metadata = undefined THEN undefined
                          ELSE old.metadata[1][k]
            IN  /\ new.metadata # undefined
                /\ \A k \in MetadataKeys :
                    new.metadata[1][k] =
                        IF u.metadata[k] # undefined THEN u.metadata[k] ELSE had(k)
                /\ new.status = IF u.status # undefined THEN u.status ELSE old.status
                /\ [new EXCEPT !.metadata = old.metadata, !.status = old.status] = old
                /\ ChildIds(G) = ChildIds(F)
                /\ Entries(G, null) =
                    {IF e.own.id = id THEN [e EXCEPT !.own = Own(new)] ELSE e :
                        e \in Entries(F, null)}

\* An imported node with pros, cons and questions was given a summary with
\* its status, then new questions without a status: it holds the pros of the
\* import, the summary, the new questions, and the status of the summary.
C16_Witness ==
    \E e \in Entries(mindMapNodes, null) :
        /\ e.own.metadata # undefined
        /\ e.own.metadata[1].pros = << <<"a">> >>
        /\ e.own.metadata[1].summary = <<"a">>
        /\ e.own.metadata[1].questions = << <<"a", "b">> >>
        /\ e.own.status = <<"summary">>

\* C17: in every reachable store state with a snapshot, Undo at pointer 0 and
\* Redo at pointer len - 1 give the state they started from; elsewhere Undo
\* gives pointer - 1 and Redo pointer + 1, with the forest history[pointer'];
\* and the history is the same sequence after either.
C17_UndoRedoFrame ==
    Len(history) >= 1 =>
        LET undone == mindMapReducer(mindMapState, Undo)
            redone == mindMapReducer(mindMapState, Redo)
        IN  /\ undone.history = history
            /\ redone.history = history
            /\ IF historyPointer = 0 THEN undone = mindMapState
               ELSE /\ undone.historyPointer = historyPointer - 1
                    /\ undone.nodes = history[undone.historyPointer + 1]
            /\ IF historyPointer = Len(history) - 1 THEN redone = mindMapState
               ELSE /\ redone.historyPointer = historyPointer + 1
                    /\ redone.nodes = history[redone.historyPointer + 1]

\* The pointer in the middle of three different snapshots: Undo and Redo both
\* move it.
C17_Witness ==
    /\ Len(history) = 3
    /\ historyPointer = 1
    /\ mindMapNodes = history[2]
    /\ history[2] # history[1]
    /\ history[2] # history[3]

\* C18: in every reachable store state and for every node of the forest,
\* ToggleExpand(id) dispatched twice in a row flips isExpanded and flips it
\* back; both dispatches push a snapshot behind the pointer (two different
\* ones), so the pointer advances by two and the history, when nothing was
\* redoable, grows by two.
C18_ToggleTwice ==
    mindMapNodes # undefinedNodes =>
        \A id \in Ids(mindMapNodes) :
            LET toggle == [type |-> "TOGGLE_EXPAND", payload |-> [nodeId |-> id]]
                once == mindMapReducer(mindMapState, toggle)
                twice == mindMapReducer(once, toggle)
                was == findNodeById(mindMapNodes, id)[1].isExpanded
            IN  /\ findNodeById(once.nodes, id)[1].isExpanded = ~was
                /\ findNodeById(twice.nodes, id)[1].isExpanded = was
                /\ once.nodes # twice.nodes
                /\ twice.history =
                    SubSeq(history, 1, historyPointer + 1) \o <<once.nodes, twice.nodes>>
                /\ twice.historyPointer = historyPointer + 2
                /\ historyPointer = Len(history) - 1 =>
                        Len(twice.history) = Len(history) + 2

\* A node was toggled and toggled back: three snapshots, the first and the
\* third the same forest, the second with one node's isExpanded flipped.
C18_Witness ==
    /\ Len(history) = 3
    /\ historyPointer = 2
    /\ history[3] = history[1]
    /\ history[2] # history[1]
    /\ \E id \in Ids(history[1]) :
        /\ Entries(history[2], null) =
            {IF e.own.id = id THEN [e EXCEPT !.own.isExpanded = ~@] ELSE e :
                e \in Entries(history[1], null)}

\* C19: a step of the Delete intent that deletes the node with id nodeId
\* leaves the selection none when nodeId is the id of the selected node, and
\* leaves the selection as it was when it is not (or nothing was selected).
C19_DeleteSelection ==
    [][\A nodeId \in Ids(mindMapNodes) :
        (/\ handleDeleteNode
         /\ mindMapState' = DELETE_NODE(mindMapState, [nodeId |-> nodeId]))
        => IF selectedNode # undefined /\ selectedNode[1].id = nodeId
           THEN selectedNode' = undefined
           ELSE selectedNode' = selectedNode]_vars

\* A node was selected and Delete has just removed another node, an ancestor
\* of it: the selection is still there, its node is in the snapshot before
\* the deletion and not in the forest.
C19_Witness ==
    /\ selectedNode # undefined
    /\ Len(history) >= 2
    /\ historyPointer = Len(history) - 1
    /\ selectedNode[1].id \in Ids(history[historyPointer])
    /\ selectedNode[1].id \notin Ids(mindMapNodes)
    /\ \E nodeId \in Ids(history[historyPointer]) \ {selectedNode[1].id} :
        mindMapNodes = deleteNodeRecursive(history[historyPointer], nodeId)

\* C20: a step that selects a node, and every step other than the Delete
\* intent that changes the selection (clearing it included), leaves forest,
\* history and pointer as they were: no snapshot is pushed, no redoable
\* snapshot is dropped.
C20_SelectionNotRecorded ==
    [][(handleSelectNode \/ (selectedNode' # selectedNode /\ ~handleDeleteNode))
       => mindMapState' = mindMapState]_vars

\* A node of the forest is selected, with its current text, while a snapshot
\* is redoable.
C20_Witness ==
    /\ selectedNode # undefined
    /\ Len(history) = 3
    /\ historyPointer = 1
    /\ \E e \in Entries(mindMapNodes, null) :
        e.own.id = selectedNode[1].id /\ e.own.text = selectedNode[1].text

\* C21 (as stated): a call of a forest-returning function (generate, refine,
\* merge) never sends more than two requests; when its first response is a
\* text that does not parse, it has sent exactly one re-format request by the
\* time it settles; and when the response to that one does not parse either,
\* it settles with a failure.
C21_RetryOnce ==
    (probe.fn \in MapFunctions) =>
        /\ Len(probe.requests) <= 2
        /\ (probe.pc = "done" /\ probe.responses[1].kind = "malformed") =>
            /\ Len(probe.requests) = 2
            /\ probe.requests[2].prompt = "re-format"
            /\ probe.responses[2].kind = "malformed" => probe.result.kind = "null"

\* The node of the selected id before and after a step, and the nodes of a
\* forest.
SelectedId == selectedNode[1].id

RECURSIVE AllNodes(_)
AllNodes(nodes) ==
    UNION {{nodes[i]} \cup AllNodes(nodes[i].children) : i \in DOMAIN nodes}

\* C22: converting a present node to a task makes no collaborator call and
\* leaves the node with metadata.task = {description built from its text,
\* completed = false} and status task; converting it to a flashcard or a
\* summary makes one call and changes nothing until the call returns, and a
\* successful return stores the result under metadata.flashcard /
\* metadata.summary with status flashcard / summary on the node the call was
\* made for.
C22_ConvertNode ==
    [][/\ (handleConvertNode_task /\ findNodeById(mindMapNodes, SelectedId) # undefined)
            => LET before == findNodeById(mindMapNodes, SelectedId)[1]
                   after == findNodeById(mindMapNodes', SelectedId)
               IN  /\ pending' = NoCall /\ ~isLoading'
                   /\ after # undefined
                   /\ after[1].metadata # undefined
                   /\ after[1].metadata[1].task =
                        <<[description |-> <<"Complete", before.text>>,
                           completed |-> FALSE, dueDate |-> undefined]>>
                   /\ after[1].status = <<"task">>
       /\ \A kind \in {"flashcard", "summary"} :
            /\ (StartNodeCall(kind) /\ findNodeById(mindMapNodes, SelectedId) # undefined)
                => /\ pending.kind = "none"
                   /\ pending' = [kind |-> kind, nodeId |-> SelectedId]
                   /\ mindMapState' = mindMapState
            /\ (/\ pending.kind = kind /\ pending'.kind = "none" /\ ~lastAlert'
                /\ findNodeById(mindMapNodes, pending.nodeId) # undefined)
                => LET after == findNodeById(mindMapNodes', pending.nodeId)
                   IN  /\ after # undefined
                       /\ after[1].metadata # undefined
                       /\ after[1].status = <<kind>>
                       /\ IF kind = "flashcard"
                          THEN \E result \in FlashcardOutcomes \ {undefined} :
                                after[1].metadata[1].flashcard = result
                          ELSE \E result \in SummaryOutcomes \ {undefined} :
                                after[1].metadata[1].summary = <<result[1].summary>>]_vars

\* A node converted to a task is in the forest.
C22_Witness ==
    \E node \in AllNodes(mindMapNodes) :
        /\ node.status = <<"task">>
        /\ node.metadata # undefined
        /\ node.metadata[1].task # undefined
        /\ node.metadata[1].task[1].description = <<"Complete", node.text>>

\* C23: at most one AI-invoking intent is in flight.  pending holds the
\* intent suspended on its collaborator call: an intent takes it only when no
\* other holds it and isLoading is false, and isLoading is true for as long
\* as it is held.
C23_OneInFlight ==
    [][/\ (pending' # pending /\ pending'.kind # "none")
            => (pending.kind = "none" /\ ~isLoading /\ isLoading')
       /\ (pending.kind # "none") => isLoading]_vars

\* An Auto-Refine call is in flight over a forest.
C23_Witness ==
    /\ pending.kind = "autoRefine"
    /\ isLoading
    /\ Len(mindMapNodes) > 0

\* What a successful return of each node call dispatches.
NodeCallResults(kind) ==
    CASE kind = "flashcard" ->
            {[metadata |-> MetadataPatch("flashcard", result[1]), status |-> <<"flashcard">>] :
                result \in FlashcardOutcomes \ {undefined}}
      [] kind = "summary" ->
            {[metadata |-> MetadataPatch("summary", result[1].summary),
              status |-> <<"summary">>] : result \in SummaryOutcomes \ {undefined}}
      [] kind = "questions" ->
            {[metadata |-> MetadataPatch("questions", <<"a", "b">>), status |-> undefined]}

\* C24: a successful response is applied to the store as it is when the
\* response arrives, whatever changed since the request: a forest as
\* SET_NODES on the current history and pointer, a node result as
\* UPDATE_NODE_METADATA on the current forest.  (A return that raises no
\* alert is a successful one.)
C24_ResponseApplied ==
    [][(pending.kind # "none" /\ pending'.kind = "none" /\ ~lastAlert')
        => IF pending.kind \in {"generate", "update", "autoRefine", "merge"}
           THEN \E m \in MapResponses :
                    mindMapState' = SET_NODES(mindMapState, newRootNodes(m, issued))
           ELSE \E u \in NodeCallResults(pending.kind) :
                    mindMapState' =
                        UPDATE_NODE_METADATA(mindMapState,
                            [nodeId |-> pending.nodeId, metadata |-> u.metadata,
                             status |-> u.status])]_vars

\* A forest was changed while a call was in flight (the third snapshot is a
\* local change: before a call the history of the race stays two long) and
\* the response then replaced it as a fourth snapshot.
C24_Witness ==
    /\ probe = RaceProbe
    /\ ~isLoading /\ ~lastAlert
    /\ Len(history) = 4 /\ historyPointer = 3
    /\ history[3] # history[2]
    /\ mindMapNodes # <<>>
    /\ Ids(mindMapNodes) \cap Ids(history[3]) = {}

\* The ids that are not in the forest: those handed out and gone since,
\* those not handed out yet, and one that never is.
AbsentIds == ((1..MaxId) \cup {NoSuchId}) \ Ids(mindMapNodes)

\* The actions that address a node, for the id nodeId.
NodeActions(nodeId) ==
    {[type |-> "UPDATE_NODE_TEXT", payload |-> [nodeId |-> nodeId, newText |-> newText]] :
        newText \in Texts}
    \cup {[type |-> "DELETE_NODE", payload |-> [nodeId |-> nodeId]],
          [type |-> "TOGGLE_EXPAND", payload |-> [nodeId |-> nodeId]]}
    \cup {[type |-> "UPDATE_NODE_METADATA",
           payload |-> [nodeId |-> nodeId, metadata |-> u.metadata, status |-> u.status]] :
            u \in MetadataUpdates}

\* C25: in every state of the session, UpdateText, Delete, ToggleExpand and
\* UpdateMetadata for an id that is not in the forest do not throw and give a
\* store with the same forest; and a ConvertNode or GenerateQuestions step
\* whose node is not in the forest starts no call and changes neither
\* isLoading nor the store.
C25_AbsentNodeSilent ==
    /\ [](\A nodeId \in AbsentIds : \A action \in NodeActions(nodeId) :
            /\ ~Throws(mindMapState, action)
            /\ mindMapReducer(mindMapState, action).nodes = mindMapNodes)
    /\ [][(/\ \/ handleConvertNode_task
              \/ \E kind \in {"flashcard", "summary", "questions"} : StartNodeCall(kind)
           /\ findNodeById(mindMapNodes, SelectedId) = undefined)
          => /\ isLoading' = isLoading
             /\ pending' = pending /\ pending.kind = "none"
             /\ mindMapState' = mindMapState]_vars

\* The selected node's parent was deleted while the node's call was in
\* flight: the response was dispatched for an id that is gone (the snapshot it
\* pushed equals the one before it), and the selection still names the id.
C25_Witness ==
    /\ probe = RaceProbe
    /\ ~isLoading /\ ~lastAlert
    /\ mindMapNodes # <<>>
    /\ historyPointer >= 2
    /\ history[historyPointer + 1] = history[historyPointer]
    /\ selectedNode # undefined
    /\ findNodeById(mindMapNodes, SelectedId) = undefined

\* pros, cons and questions of an AI node are each in the metadata of the
\* node imported from it, and the same holds of the subtopics and the
\* children, pair by pair.
RECURSIVE FoldsEach(_, _)
FoldsEach(aiNode, node) ==
    LET subs == IF aiNode.subtopics = undefined THEN <<>> ELSE aiNode.subtopics[1]
    IN  /\ MetaGet(node, "pros") = aiNode.pros
        /\ MetaGet(node, "cons") = aiNode.cons
        /\ MetaGet(node, "questions") = aiNode.questions
        /\ Len(node.children) = Len(subs)
        /\ \A i \in DOMAIN subs : FoldsEach(subs[i], node.children[i])

\* C26 (as stated): the node imported from an AI node has pros in its
\* metadata whenever the AI node has pros, cons whenever it has cons and
\* questions whenever it has questions, each independently of the others, at
\* every depth.
C26_FoldsIndependently ==
    probe.stage \in {"node", "exported"} => FoldsEach(probe.aiNode, probe.node[1])

\* The AI node says of the node what the export is to say: its text as
\* title, its children one by one and in order as subtopics, pros and cons as
\* the metadata has them when it has either, questions as the metadata has
\* them, and nothing else.
RECURSIVE ExportedAsStated(_, _)
ExportedAsStated(node, aiNode) ==
    LET m == IF node.metadata = undefined THEN EmptyMetadata ELSE node.metadata[1]
    IN  /\ DOMAIN aiNode = {"title", "subtopics", "pros", "cons", "questions"}
        /\ aiNode.title = node.text
        /\ aiNode.subtopics # undefined
        /\ Len(aiNode.subtopics[1]) = Len(node.children)
        /\ \A i \in DOMAIN node.children :
            ExportedAsStated(node.children[i], aiNode.subtopics[1][i])
        /\ (aiNode.pros # undefined \/ aiNode.cons # undefined)
            <=> (m.pros # undefined \/ m.cons # undefined)
        /\ aiNode.pros = m.pros
        /\ aiNode.cons = m.cons
        /\ aiNode.questions = m.questions

\* C27: the export of a node has the node's text as title, one subtopic per
\* child in child order, pros and cons exactly when the metadata has pros or
\* has cons, questions exactly when the metadata has questions, and no id,
\* tags, isExpanded, status or other metadata.
C27_ExportFields ==
    probe.stage = "exported" => ExportedAsStated(probe.node[1], probe.exported[1])

\* A node with pros and no cons, parent of a converted node, was exported.
C27_Witness ==
    /\ probe.stage = "exported"
    /\ probe.aiNode = undefined
    /\ MetaGet(probe.node[1], "pros") # undefined
    /\ MetaGet(probe.node[1], "cons") = undefined
    /\ \E i \in DOMAIN probe.node[1].children : probe.node[1].children[i].status # undefined
    /\ probe.exported[1].pros # undefined

\* C28 (as stated): while an AI-invoking intent is in flight the store
\* changes only by the step that ends the intent; no AddNode, UpdateText,
\* Delete, ToggleExpand, Undo or Redo is dispatched while isLoading.
C28_NoLocalActionInFlight ==
    [][(isLoading /\ mindMapState' # mindMapState)
        => (pending.kind # "none" /\ pending'.kind = "none")]_vars

\* C29 (as stated): a failed AI-invoking intent leaves the selection as it
\* was before the intent started.  Neither the step that starts an intent
\* (any started call may fail) nor the step on which it fails changes
\* selectedNode.
C29_FailureKeepsSelection ==
    [][(\/ pending.kind = "none" /\ pending'.kind # "none"
        \/ pending.kind # "none" /\ pending'.kind = "none" /\ lastAlert')
        => selectedNode' = selectedNode]_vars

\* C30: whenever the history is non-empty, the forest is the snapshot the
\* pointer names, after any sequence of mutating actions, Undo and Redo.
C30_ForestIsCurrentSnapshot ==
    Len(history) >= 1 =>
        /\ historyPointer \in 0..(Len(history) - 1)
        /\ mindMapNodes = history[historyPointer + 1]

\* After mutations and an Undo: the pointer is inside the history, on a
\* forest that is not the last snapshot.
C30_Witness ==
    /\ Len(history) = MaxHistory
    /\ historyPointer = 1
    /\ mindMapNodes # <<>>
    /\ mindMapNodes = history[2]
    /\ history[3] # history[2]

\* C31 (as stated): on the initial store (no snapshot yet, pointer -1, the
\* empty forest) Undo and Redo each give back the store they were given, and
\* the forest they give is a forest.
C31_InitialUndoRedo ==
    (Len(history) = 0 /\ historyPointer = -1 /\ mindMapNodes = <<>>) =>
        /\ mindMapReducer(mindMapState, Undo) = mindMapState
        /\ mindMapReducer(mindMapState, Redo) = mindMapState
        /\ mindMapReducer(mindMapState, Undo).nodes # undefinedNodes
        /\ mindMapReducer(mindMapState, Redo).nodes # undefinedNodes

\* Undo dispatched k times in a row.
RECURSIVE UndoTimes(_, _)
UndoTimes(state, k) == IF k = 0 THEN state ELSE UndoTimes(UNDO(state), k - 1)

\* C32: the seeding SET_NODES([]) of the mount effect runs once, on the
\* empty history; from then on the history is never empty and its first
\* snapshot is the empty forest, so Undo repeated from any state (as many
\* times as the pointer is high, and once more) ends at pointer 0 with the
\* empty forest.
C32_SeededOnce ==
    /\ [][/\ InitEffect => (Len(history) = 0 /\ Len(history') = 1)
          /\ Len(history) >= 1 => Len(history') >= 1]_vars
    /\ [](Len(history) >= 1 =>
            /\ history[1] = <<>>
            /\ \A k \in {historyPointer, historyPointer + 1} :
                /\ UndoTimes(mindMapState, k).historyPointer = 0
                /\ UndoTimes(mindMapState, k).nodes = <<>>
                /\ UndoTimes(mindMapState, k).history = history)

\* Two forests were recorded after the seed and Undo was pressed twice: the
\* pointer is on the seed.
C32_Witness ==
    /\ Len(history) = 3
    /\ historyPointer = 0
    /\ mindMapNodes = <<>>
    /\ history[2] # <<>>
    /\ history[3] # history[2]

\* The mutating actions whose target is the absent id: the node actions, and
\* AddNode under it as parent.
AbsentTargetActions(id) ==
    NodeActions(id)
    \cup {[type |-> "ADD_NODE",
           payload |-> [parentId |-> id, newNode |-> newChildNode(id, issued)]]}

\* The store as it is and as Undo, dispatched one or more times, gives it.
UndoneStates == {UndoTimes(mindMapState, k) : k \in 0..Max(0, historyPointer)}

\* C33: on the store of every state of the race, and on what Undo gives from
\* it, a mutating action whose target id is not in the forest gives the same
\* forest and a history that is the snapshots up to the pointer followed by
\* that forest once more: the redoable snapshots are gone and the last two
\* snapshots are equal.  And when the result of a node call arrives for a node
\* that was deleted while the call was in flight, the history grows by one
\* snapshot and the forest stays as it is.
C33_AbsentTargetStillSnapshots ==
    /\ [](\A s \in UndoneStates :
            \A id \in {NoSuchId} \cup ((1..MaxId) \ Ids(s.nodes)) :
                \A action \in AbsentTargetActions(id) :
                    LET acted == mindMapReducer(s, action)
                    IN  /\ acted.nodes = s.nodes
                        /\ acted.history =
                                Append(SubSeq(s.history, 1, s.historyPointer + 1), s.nodes)
                        /\ Len(acted.history) = s.historyPointer + 2
                        /\ acted.historyPointer = s.historyPointer + 1
                        /\ acted.history[s.historyPointer + 2] =
                                acted.history[s.historyPointer + 1])
    /\ [][(/\ pending.kind \in {"flashcard", "summary", "questions"}
           /\ pending'.kind = "none" /\ ~lastAlert'
           /\ findNodeById(mindMapNodes, pending.nodeId) = undefined)
          => /\ mindMapNodes' = mindMapNodes
             /\ history' = Append(history, mindMapNodes)
             /\ historyPointer' = historyPointer + 1]_vars

\* A node was deleted while a call was in flight (the third snapshot has
\* fewer nodes than the second) and the fourth snapshot, pushed when the call
\* returned, equals the third.
C33_Witness ==
    /\ probe = RaceProbe
    /\ ~isLoading /\ ~lastAlert
    /\ Len(history) = 4 /\ historyPointer = 3
    /\ mindMapNodes # <<>>
    /\ history[4] = history[3]
    /\ Ids(history[3]) # Ids(history[2])
    /\ Ids(history[3]) \subseteq Ids(history[2])

\* C34: when the response of Update, Auto-Refine or Merge is applied, whatever
\* was changed since the request, the forest becomes the import of the
\* response and nothing else (every id in it is new), the forest found at
\* arrival, local changes included, is the snapshot right before it, and one
\* Undo gives it back.
C34_LostUpdateUndoable ==
    [][(pending.kind \in {"update", "autoRefine", "merge"}
        /\ pending'.kind = "none" /\ ~lastAlert')
        => /\ \E m \in MapResponses : mindMapNodes' = newRootNodes(m, issued)
           /\ Ids(mindMapNodes') \cap Ids(mindMapNodes) = {}
           /\ historyPointer' = historyPointer + 1
           /\ Len(history') = historyPointer' + 1
           /\ history'[historyPointer'] = mindMapNodes
           /\ history'[historyPointer' + 1] = mindMapNodes'
           /\ UNDO(mindMapState').nodes = mindMapNodes
           /\ UNDO(mindMapState').historyPointer = historyPointer]_vars

\* The generated forest was changed in place while a call was in flight (the
\* third snapshot has nodes of the second), the response replaced it, and Undo
\* gives the changed forest back.
C34_Witness ==
    /\ probe = RaceProbe
    /\ ~isLoading /\ ~lastAlert
    /\ Len(history) = 4 /\ historyPointer = 3
    /\ history[3] # history[2]
    /\ Ids(history[3]) \cap Ids(history[2]) # {}
    /\ mindMapNodes # <<>>
    /\ Ids(mindMapNodes) \cap Ids(history[3]) = {}
    /\ UNDO(mindMapState).nodes = history[3]

\* C35: in every state of the session in which a collaborator call is
\* outstanding (a handler is suspended on its await), isLoading is true.
C35_BusyWhileOutstanding ==
    pending.kind # "none" => isLoading

\* A summary call is outstanding for the selected node.
C35_Witness ==
    /\ pending.kind = "summary"
    /\ isLoading
    /\ selectedNode # undefined
    /\ pending.nodeId = selectedNode[1].id

\* C36: in the forest and in every snapshot of every reachable store state,
\* the parentId of each node is the id of the node whose children hold it,
\* and null for a root.
C36_ParentIds ==
    \A nodes \in {mindMapNodes} \cup {history[i] : i \in DOMAIN history} :
        \A e \in Entries(nodes, null) : e.own.parentId = e.parent

\* After an import, an AddNode under an imported child, a Delete of the new
\* node and an Undo: the forest holds the added node under a node that has a
\* parent itself.
C36_Witness ==
    /\ Len(history) = 3
    /\ historyPointer = 1
    /\ \E e \in Entries(mindMapNodes, null) :
        /\ e.own.text = "New Idea"
        /\ e.parent # null
        /\ e.own.parentId = e.parent
        /\ e.own.id \notin Ids(history[3])
        /\ \E up \in Entries(mindMapNodes, null) :
            up.own.id = e.parent /\ up.parent # null

\* C37 (as stated): whenever a node is selected and its id is in the forest,
\* the text the selection holds is the text of that node in the forest.
C37_SelectionShowsCurrent ==
    (selectedNode # undefined /\ findNodeById(mindMapNodes, SelectedId) # undefined)
        => selectedNode[1].text = findNodeById(mindMapNodes, SelectedId)[1].text

\* The callbacks of transcribeAudio that settle the promise.
DecidingEvents ==
    {"transcription", "turnComplete", "error", "close", "connectFailure", "timeout"}

\* C38: transcribeAudio settles at most once.  Once the session is asked
\* for, resolve or reject is called once at most; the first deciding
\* callback to run (a transcription, a turnComplete, an error, a close, a
\* failed connection or the timeout) gives the outcome; and a callback that
\* runs after it changes neither the outcome nor the flag nor the close
\* request.
C38_SettlesOnce ==
    /\ [](probe.pc = "live" =>
            /\ probe.settles <= 1
            /\ probe.transcriptionHandled <=> probe.fired \cap DecidingEvents # {}
            /\ probe.transcriptionHandled <=> probe.settles = 1)
    /\ [][(probe.pc = "live" /\ probe.transcriptionHandled)
            => /\ probe'.outcome = probe.outcome
               /\ probe'.settles = probe.settles
               /\ probe'.transcriptionHandled
               /\ probe'.closeRequested = probe.closeRequested]_vars
    /\ [][(probe.pc = "live" /\ ~probe.transcriptionHandled)
            => \A e \in (probe'.fired \ probe.fired) \cap DecidingEvents :
                probe'.outcome = CASE e = "transcription" -> "text"
                                   [] e = "turnComplete" -> "empty"
                                   [] e = "error" -> "error"
                                   [] e = "close" -> "closed"
                                   [] e = "connectFailure" -> "connect"
                                   [] e = "timeout" -> "timeout"]_vars

\* The transcription arrived first and resolved the promise; an error, the
\* close and the timeout came after it.
C38_Witness ==
    /\ probe.outcome = "text"
    /\ probe.settles = 1
    /\ {"transcription", "error", "close", "timeout"} \subseteq probe.fired

\* C39: once the blob is read and the session asked for, the promise
\* settles, whatever the service does; when the timer fires with nothing
\* settled yet it rejects the promise and registers the close of the session.
C39_TimeoutSettles ==
    /\ (probe.pc = "live") ~> (probe.outcome # "pending")
    /\ [][(TranscribeTimeout /\ ~probe.transcriptionHandled)
            => /\ probe'.outcome = "timeout"
               /\ probe'.settles = 1
               /\ probe'.closeRequested]_vars

\* The service never answered: the session promise is still pending, no
\* callback but the timeout has run, and the promise is rejected.
C39_Witness ==
    /\ probe.pc = "live"
    /\ probe.session = "pending"
    /\ probe.fired = {"timeout"}
    /\ probe.outcome = "timeout"
    /\ probe.closeRequested

====
